---- MODULE Spec2Model ----
(***************************************************************************)
(* A model of the B_decays_clustering pipeline: the parameter-space scan   *)
(* (bclustering/scan.py and the older scan.py), cluster-id renaming and    *)
(* subsetting (clusterking/data/data.py), the cluster engine's write-back  *)
(* (bclustering/cluster/cluster.py), the dataframe/metadata bundle         *)
(* (bclustering/dfmd.py), the distance metric (bclustering/maths/          *)
(* metric.py), the random indices of the bundle plots (bclustering/plots/  *)
(* plot_bundles.py) and the stability tester (clusterking/stability/       *)
(* noisysamplestability.py).                                               *)
(*                                                                         *)
(* Each subsystem has its own specification (Spec, SpecData, SpecSubset,   *)
(* SpecCluster, SpecDFMD, SpecPersist, SpecMetric, SpecPlot,               *)
(* SpecStability); a specification only moves the variables of its         *)
(* subsystem.                                                              *)
(***************************************************************************)
EXTENDS Integers, Sequences, FiniteSets, TLC

\* ------------------------------------------------------------------ bounds
\* Longest value list (or largest linspace count) of one parameter.
MaxVals == 2
\* Largest number of pool processes.
MaxWorkers == 2
\* Largest number of bins of a distribution.
MaxBins == 2
\* Largest number of points a scan is run over.
MaxPoints == 4
\* Largest number of points a scan is run over with a function whose
\* results differ in length.
MaxRaggedPoints == 2
\* Largest number of rows of a Data container.
MaxRows == 3
\* Largest number of calls made on one cluster engine.
MaxCalls == 3
\* Largest number of positional arguments of a constructor call.
MaxArgs == 3
\* Longest list of cluster ids asked of a plot.
MaxRequested == 2
\* Largest stop and largest n of a call of get_random_indizes.
MaxStop == 3
\* Largest repeat count a stability test is run with.
MaxRepeat == 2
\* Largest number of stability tests run with one tester.
MaxStabilityRuns == 2
\* NoisySampleStabilityTester.set_repeat's default.
DefaultRepeat == 10

\* ------------------------------------------------------------------ values
\* An optional value: None, or Some(x) holding x.
None == <<>>

Some(x) == <<x>>

\* The value an optional value holds.
the(opt) == opt[1]

\* Parameter (Wilson coefficient) names, listed in lexicographic order.
NameOrder == <<"CSL", "CVL">>

CoeffNames == {NameOrder[i] : i \in DOMAIN NameOrder}

\* Python's str comparison x <= y on these names.
NameLeq(x, y) ==
    (CHOOSE i \in DOMAIN NameOrder : NameOrder[i] = x)
        <= (CHOOSE i \in DOMAIN NameOrder : NameOrder[i] = y)

\* "bin{}".format(no_bin)
BinNames == <<"bin0", "bin1", "bin2", "bin3", "bin4", "bin5", "bin6", "bin7">>

bin_name(no_bin) == BinNames[no_bin + 1]

RECURSIVE SeqProd(_)
\* Product of a sequence of naturals.
SeqProd(s) == IF s = <<>> THEN 1 ELSE Head(s) * SeqProd(Tail(s))

RECURSIVE SeqSetOfLen(_, _)
\* Sequences over S of exactly length n.
SeqSetOfLen(S, n) ==
    IF n = 0 THEN {<<>>}
    ELSE {Append(s, x) : s \in SeqSetOfLen(S, n - 1), x \in S}

\* Range of a sequence.
Range(s) == {s[i] : i \in DOMAIN s}

\* Sequences without repetition.
IsInjective(s) == \A i, j \in DOMAIN s : s[i] = s[j] => i = j

\* ---------------------------------------------------------------- state
VARIABLES
    \* --- Scanner (bclustering/scan.py) and run_parallel (scan.py)
    wpoints,            \* Scanner._wpoints: list of points, each coeff -> value
    md,                 \* Scanner.metadata["scan"]: wpoints.* and dfunction.nbins
    wpoint_calculator,  \* Scanner.wpoint_calculator: None or the dfunction setup
    df,                 \* Scanner.df: the table [cols, rows]
    bpoints,            \* run_parallel's bpoints argument
    pc,                 \* position of the orchestrating process
    run_status,         \* how the scan ended: "none", "ok", "skipped", "raised"
    write_status,       \* how Scanner.write ended
    dfunc_raises,       \* index of the point the distribution function raises on, 0: none
    no_workers,         \* processes of the pool
    taken,              \* number of tasks the pool handed to its workers
    running,            \* task indices being evaluated by a worker
    outbox,             \* task indices finished and not yet consumed
    index,              \* number of results the orchestrator has consumed
    rows,               \* Scanner.run's local list of rows
    files,              \* the file system: path -> content or None
    files0,             \* history: the file system as other programs left it
    last_call           \* history: the latest set_wpoints_* call and its argument

    \* --- the Data container (clusterking/data/data.py)
VARIABLES
    data_df,            \* Data.df: [n |-> number of rows, col |-> name -> column]
    data_md,            \* Data.md["cluster"]: name -> what is recorded under it
    data_before,        \* history: Data.df before the latest operation on it
    data_op,            \* history: the latest operation on the container
    data_returned       \* what the latest operation returned: None or a container

    \* --- the cluster engine (bclustering/cluster/cluster.py)
VARIABLES
    cl_clusters,        \* Cluster.clusters: None or the assignment
    cl_bpoints,         \* Cluster.bpoints: None or the benchmark flags
    cl_md,              \* Cluster.md: cluster_args, n_clusters, select_bpoints_args
    cl_raised,          \* whether the latest call on the engine raised
    cl_calls            \* number of calls made on the engine

    \* --- the dataframe/metadata bundle (bclustering/dfmd.py)
VARIABLES
    self_df,            \* DFMD.df of the object under construction
    self_md,            \* DFMD.md of the object under construction
    init_call,          \* history: the arguments __init__ was called with
    init_status,        \* "none" before the call, then "ok" or "raised"
    io_pc,              \* where the object is in DFMD.write and DFMD.load
    io_status,          \* how the latest write or load ended
    io_call             \* history: the latest write, and the object it wrote

    \* --- the distance metric (bclustering/maths/metric.py)
VARIABLES
    m_input,            \* the data, matrix or vector the first call is made on
    m_calls             \* history: the calls made, each with its result

    \* --- get_random_indizes (bclustering/plots/plot_bundles.py)
VARIABLES
    ri_args,            \* None before the call, then its start, stop and n
    ri_indizes,         \* the local set indizes
    ri_iterations,      \* the local counter iterations
    ri_pc,              \* where the call is: "idle", "while", "break", "done", "raised"
    ri_returned,        \* the list returned
    ri_draws            \* history: the number of random.randrange calls

    \* --- the stability tester (clusterking/stability/noisysamplestability.py)
VARIABLES
    st_tester,          \* NoisySampleStabilityTester: _repeat, _cache_data, _foms
    st_run,             \* the locals of a call of run
    st_noise,           \* the noise the generator yields at each repetition
    st_returned         \* history: the runs that returned, with their results

scanVars == <<wpoints, md, wpoint_calculator, df, bpoints, pc, run_status,
              write_status, dfunc_raises, no_workers, taken, running, outbox,
              index, rows, files, files0, last_call>>

dataVars == <<data_df, data_md, data_before, data_op, data_returned>>

clusterVars == <<cl_clusters, cl_bpoints, cl_md, cl_raised, cl_calls>>

dfmdVars == <<self_df, self_md, init_call, init_status, io_pc, io_status, io_call>>

metricVars == <<m_input, m_calls>>

plotVars == <<ri_args, ri_indizes, ri_iterations, ri_pc, ri_returned, ri_draws>>

stabilityVars == <<st_tester, st_run, st_noise, st_returned>>

vars == <<scanVars, dataVars, clusterVars, dfmdVars, metricVars, plotVars,
          stabilityVars>>

\* What each subsystem leaves alone.
notScanVars == <<dataVars, clusterVars, dfmdVars, metricVars, plotVars,
                 stabilityVars>>

notDataVars == <<scanVars, clusterVars, dfmdVars, metricVars, plotVars,
                 stabilityVars>>

notClusterVars == <<scanVars, dfmdVars, metricVars, plotVars, stabilityVars>>

notDFMDVars == <<scanVars, dataVars, clusterVars, metricVars, plotVars,
                 stabilityVars>>

notMetricVars == <<scanVars, dataVars, clusterVars, dfmdVars, plotVars,
                   stabilityVars>>

notPlotVars == <<scanVars, dataVars, clusterVars, dfmdVars, metricVars,
                 stabilityVars>>

notStabilityVars == <<scanVars, dataVars, clusterVars, dfmdVars, metricVars,
                      plotVars>>

\* What DFMD.write and DFMD.load leave alone: all but the object and the
\* files.
notFilesVars == <<wpoints, md, wpoint_calculator, df, bpoints, pc, run_status,
                  write_status, dfunc_raises, no_workers, taken, running, outbox,
                  index, rows, last_call, dataVars, clusterVars, metricVars,
                  plotVars, stabilityVars>>

\* No call of get_random_indizes.
InitPlot ==
    /\ ri_args = None
    /\ ri_indizes = {}
    /\ ri_iterations = 0
    /\ ri_pc = "idle"
    /\ ri_returned = None
    /\ ri_draws = 0

\* NoisySampleStabilityTester.__init__
new_tester == [repeat |-> DefaultRepeat, cache_data |-> TRUE, foms |-> <<>>]

\* No call of NoisySampleStabilityTester.run.
no_run == [pc |-> "idle", i |-> 0, datas |-> <<>>, original_clusters |-> None,
           fom_results |-> <<>>, scans |-> <<>>, assignments |-> <<>>]

\* A new tester, no noise.
IdleStability ==
    /\ st_tester = new_tester
    /\ st_run = no_run
    /\ st_noise = <<>>
    /\ st_returned = <<>>

\* No distance computed, no index drawn and no stability test, for the
\* specifications of the other parts.
IdleMetric ==
    /\ m_input = <<>>
    /\ m_calls = <<>>
    /\ InitPlot
    /\ IdleStability

\* ============================================================== the scan
\* ------------------------------------------------- ParameterSpace helpers

RECURSIVE InsertSorted(_, _)
\* One insertion step of list.sort on names.
InsertSorted(s, x) ==
    IF s = <<>> THEN <<x>>
    ELSE IF NameLeq(x, Head(s)) THEN <<x>> \o s
    ELSE <<Head(s)>> \o InsertSorted(Tail(s), x)

RECURSIVE sort(_)
\* coeffs.sort(): the names in ascending (lexicographic) order.
sort(s) == IF s = <<>> THEN <<>> ELSE InsertSorted(sort(Tail(s)), Head(s))

\* list(values.keys()): the keys of a dict in insertion order.  A dict is a
\* sequence of [coeff, vals] entries with distinct coeff.
keys(values) == [i \in DOMAIN values |-> values[i].coeff]

\* values[coeff]
lookup(values, coeff) ==
    values[CHOOSE i \in DOMAIN values : values[i].coeff = coeff].vals

RECURSIVE Flatten(_)
Flatten(ss) == IF ss = <<>> THEN <<>> ELSE Head(ss) \o Flatten(Tail(ss))

\* zip(*values_lists): the lists paired up position by position.
zip(lists) ==
    IF lists = <<>> THEN <<>>
    ELSE LET shortest == CHOOSE n \in {Len(lists[i]) : i \in DOMAIN lists} :
                            \A i \in DOMAIN lists : n <= Len(lists[i])
         IN  [j \in 1..shortest |-> [i \in DOMAIN lists |-> lists[i][j]]]

RECURSIVE product(_)
\* itertools.product(*values_lists): the rightmost list advances fastest;
\* no list at all gives the one empty tuple.
product(lists) ==
    IF lists = <<>> THEN << <<>> >>
    ELSE LET rest == product(Tail(lists))
         IN  Flatten([i \in DOMAIN Head(lists) |->
                        [j \in DOMAIN rest |-> <<Head(lists)[i]>> \o rest[j]]])

\* np.linspace(lo, hi, num): num evenly spaced values from lo to hi, both
\* included; one value lo for num = 1, none for num = 0.  The ranges of the
\* model are drawn so that the step is a whole number.
linspace(lo, hi, num) ==
    [i \in 1..num |-> IF num = 1 THEN lo
                      ELSE lo + ((i - 1) * (hi - lo)) \div (num - 1)]

\* wilson.Wilson(wcdict={coeffs[icoeff]: cartesian[icoeff] ...}): the point
\* as coefficient name -> value.
Wilson(coeffs, cartesian) ==
    [c \in Range(coeffs) |->
        cartesian[CHOOSE i \in DOMAIN coeffs : coeffs[i] = c]]

RECURSIVE SetToSortedSeq(_)
SetToSortedSeq(S) ==
    IF S = {} THEN <<>>
    ELSE LET m == CHOOSE x \in S : \A y \in S : NameLeq(x, y)
         IN  <<m>> \o SetToSortedSeq(S \ {m})

\* list(w.wc.values.values()): the values of a point in alphabetical order
\* of the coefficient names.
wc_values(w) ==
    LET ks == SetToSortedSeq(DOMAIN w) IN [i \in DOMAIN ks |-> w[ks[i]]]

\* --------------------------------------------------------------- inputs
\* Value lists of one parameter: consecutive values from 0 or from 1.
ValueLists == {[i \in 1..c |-> s + i - 1] : s \in {0, 1}, c \in 0..MaxVals}

\* A span every linspace count of the model divides evenly.
LinSpan == SeqProd([i \in 1..MaxVals |-> i])

\* (min, max, count) ranges of one parameter.
Ranges == {<<lo, lo + LinSpan, num>> : lo \in {0, 1}, num \in 0..MaxVals}

\* The orders a caller can supply (some of) the names in.
KeyOrders ==
    {ks \in UNION {SeqSetOfLen(CoeffNames, n) : n \in 0..Cardinality(CoeffNames)} :
        IsInjective(ks)}

\* Dicts name -> element of S, in every insertion order.
Dicts(S) ==
    UNION {{[i \in DOMAIN ks |-> [coeff |-> ks[i], vals |-> f[i]]] :
                f \in [DOMAIN ks -> S]} : ks \in KeyOrders}

\* Binnings: the bin edges 0, 1, ..., b
Binnings == {[i \in 1..(b + 1) |-> i - 1] : b \in 0..MaxBins}

\* Functions used without a binning: those that return an array of the
\* same length at every point, and one that returns an array of length 1
\* at every point but the last.
RawFunctions ==
    {[rawlen |-> len, ragged |-> FALSE] : len \in 1..MaxBins}
        \cup {[rawlen |-> 1, ragged |-> TRUE]}

\* Overwrite policies a caller may pass to write.
Policies == {"ask", "overwrite", "raise", "OVERWRITE", "never"}

\* ------------------------------------------------------------ Scanner setup
\* Scanner.set_wpoints_grid: the points built from the grid.
grid_wpoints(values) ==
    LET coeffs == sort(keys(values))
        values_lists == [i \in DOMAIN coeffs |-> lookup(values, coeffs[i])]
        cartesians == product(values_lists)
    IN  [i \in DOMAIN cartesians |-> Wilson(coeffs, cartesians[i])]

\* Scanner.set_wpoints_grid: the metadata it records.  scale, eft and basis
\* are copied as given and are left out of the model.
grid_md(values) == [md EXCEPT !.coeffs = keys(values), !.values = values]

set_wpoints_grid(values) ==
    /\ pc = "idle"
    /\ wpoints' = grid_wpoints(values)
    /\ md' = grid_md(values)
    /\ last_call' = Some([op |-> "grid", arg |-> values])
    /\ UNCHANGED <<wpoint_calculator, df, bpoints, pc, run_status, write_status,
                   dfunc_raises, no_workers, taken, running, outbox, index,
                   rows, files, files0>>
    /\ UNCHANGED notScanVars

\* Scanner.set_wpoints_equidist: the grid it hands to set_wpoints_grid.
grid_config(ranges) ==
    [i \in DOMAIN ranges |->
        [coeff |-> ranges[i].coeff,
         vals |-> linspace(ranges[i].vals[1], ranges[i].vals[2], ranges[i].vals[3])]]

\* The sampling and ranges entries set_wpoints_equidist adds to the metadata
\* are only ever written out; the model leaves them out.
set_wpoints_equidist(ranges) ==
    /\ pc = "idle"
    /\ wpoints' = grid_wpoints(grid_config(ranges))
    /\ md' = grid_md(grid_config(ranges))
    /\ last_call' = Some([op |-> "equidist", arg |-> ranges])
    /\ UNCHANGED <<wpoint_calculator, df, bpoints, pc, run_status, write_status,
                   dfunc_raises, no_workers, taken, running, outbox, index,
                   rows, files, files0>>
    /\ UNCHANGED notScanVars

\* Scanner.set_dfunction(func, binning): rawlen is the length of the array
\* func returns when it is used without a binning (0 with a binning, where
\* func returns a float); ragged says that func does not return an array of
\* the same length at every point.
set_dfunction(binning, rawlen, ragged) ==
    /\ pc = "idle"
    /\ md' = [md EXCEPT !.nbins = IF binning # None
                                  THEN Some(Len(the(binning)) - 1) ELSE @]
    /\ wpoint_calculator' = Some([binning |-> binning, rawlen |-> rawlen,
                                   ragged |-> ragged])
    /\ UNCHANGED <<wpoints, df, bpoints, pc, run_status, write_status,
                   dfunc_raises, no_workers, taken, running, outbox, index,
                   rows, files, files0, last_call>>
    /\ UNCHANGED notScanVars

\* ------------------------------------------------------------ the pool
\* bin_function(func, binning): one content per bin.  The contents are
\* opaque: content i at point w is the pair <<w, i>>.
bin_function(w, binning) == [i \in 1..(Len(binning) - 1) |-> <<w, i>>]

\* len(self.dfunc(w, **self.dfunc_kwargs)): the function returns rawlen
\* values; a ragged one returns one value less at the last of the points.
dfunc_len(w) ==
    LET self == the(wpoint_calculator)
    IN  IF self.ragged /\ wpoints # <<>> /\ w = wpoints[Len(wpoints)]
        THEN self.rawlen - 1
        ELSE self.rawlen

\* WpointCalculator.calc
calc(w) ==
    LET self == the(wpoint_calculator)
    IN  IF self.binning # None
        THEN bin_function(w, the(self.binning))
        ELSE [i \in 1..dfunc_len(w) |-> <<w, i>>]

\* calculate_bpoint: the opaque q2 histogram of one benchmark point.
calculate_bpoint(bpoint) == <<"hist", bpoint>>

\* The list the pool's tasks are taken from.
Tasks == IF pc \in {"rp_prepare", "rp_loop"} THEN bpoints ELSE wpoints

\* A pool process takes the next task of the imap task queue.
worker_take ==
    /\ pc \in {"loop", "rp_prepare", "rp_loop"}
    /\ Cardinality(running) < no_workers
    /\ taken < Len(Tasks)
    /\ taken' = taken + 1
    /\ running' = running \cup {taken + 1}
    /\ UNCHANGED <<wpoints, md, wpoint_calculator, df, bpoints, pc, run_status,
                   write_status, dfunc_raises, no_workers, outbox, index, rows,
                   files, files0, last_call>>
    /\ UNCHANGED notScanVars

\* A pool process finishes its task (with a result or an exception) and
\* hands the outcome back.
worker_finish(k) ==
    /\ pc \in {"loop", "rp_prepare", "rp_loop"}
    /\ k \in running
    /\ running' = running \ {k}
    /\ outbox' = outbox \cup {k}
    /\ UNCHANGED <<wpoints, md, wpoint_calculator, df, bpoints, pc, run_status,
                   write_status, dfunc_raises, no_workers, taken, index, rows,
                   files, files0, last_call>>
    /\ UNCHANGED notScanVars

\* next() of the iterator pool.imap_unordered returns: any finished outcome.
imap_unordered_next(finished, consumed) == finished

\* next() of the iterator pool.imap returns: the outcome of task
\* consumed + 1, once it is there.
imap_next(finished, consumed) ==
    IF consumed + 1 \in finished THEN {consumed + 1} ELSE {}

\* ------------------------------------------------------------ Scanner.run
\* no_workers as run settles it: the argument, else os.cpu_count(), else 1.
\* 0 stands for an argument left out (None) and for a cpu count that could
\* not be determined.
workers(arg, cpu_count) ==
    IF arg # 0 THEN arg
    ELSE IF cpu_count # 0 THEN cpu_count
    ELSE 1

\* Scanner.run up to the start of the result loop: the early returns, the
\* pool and the submission of all points.  raises is the index of the point
\* the distribution function fails on (0: on none).
run_start(arg, cpu_count, raises) ==
    /\ pc = "idle"
    /\ Len(wpoints) <= MaxPoints
    /\ (wpoint_calculator # None /\ the(wpoint_calculator).ragged) =>
          Len(wpoints) <= MaxRaggedPoints
    /\ IF wpoints = <<>> \/ wpoint_calculator = None
       THEN /\ pc' = "ran"
            /\ run_status' = "skipped"
            /\ UNCHANGED <<no_workers, dfunc_raises>>
       ELSE /\ pc' = "loop"
            /\ no_workers' = workers(arg, cpu_count)
            /\ dfunc_raises' = raises
            /\ UNCHANGED run_status
    /\ UNCHANGED <<wpoints, md, wpoint_calculator, df, bpoints, write_status,
                   taken, running, outbox, index, rows, files, files0, last_call>>
    /\ UNCHANGED notScanVars

\* One pass of the result loop of Scanner.run.
run_loop ==
    /\ pc = "loop"
    /\ index < Len(wpoints)
    /\ \E k \in imap_next(outbox, index) :
        /\ outbox' = outbox \ {k}
        /\ IF k = dfunc_raises
           THEN /\ pc' = "ran"
                /\ run_status' = "raised"
                /\ UNCHANGED <<md, rows, index>>
           ELSE LET result == calc(wpoints[k])
                    coeff_values == wc_values(wpoints[index + 1])
                IN  /\ md' = [md EXCEPT !.nbins =
                                 IF @ = None THEN Some(Len(result) - 1) ELSE @]
                    /\ rows' = Append(rows, coeff_values \o result)
                    /\ index' = index + 1
                    /\ UNCHANGED <<pc, run_status>>
    /\ UNCHANGED <<wpoints, wpoint_calculator, df, bpoints, write_status,
                   dfunc_raises, no_workers, taken, running, files, files0, last_call>>
    /\ UNCHANGED notScanVars

\* The column names Scanner.run gives the table.
run_cols ==
    md.coeffs \o [i \in 1..the(md.nbins) |-> bin_name(i - 1)]

\* The length of the longest of the rows.
width(data) ==
    IF data = <<>> THEN 0
    ELSE CHOOSE m \in {Len(data[r]) : r \in DOMAIN data} :
            \A r \in DOMAIN data : Len(data[r]) <= m

\* pd.DataFrame(data=rows, columns=cols) raises when the longest of the
\* rows does not have as many values as there are column names.
DataFrameRaises(data, columns) ==
    data # <<>> /\ width(data) # Len(columns)

\* pd.DataFrame(data=rows, columns=cols): the shorter rows are filled up
\* with missing values (None).
DataFrame(data, columns) ==
    [cols |-> columns,
     rows |-> [r \in DOMAIN data |->
                 [c \in 1..width(data) |->
                    IF c <= Len(data[r]) THEN data[r][c] ELSE None]]]

\* Scanner.run after the loop: pool.join and the conversion to a table.
run_finish ==
    /\ pc = "loop"
    /\ index = Len(wpoints)
    /\ pc' = "ran"
    /\ IF DataFrameRaises(rows, run_cols)
       THEN run_status' = "raised" /\ UNCHANGED df
       ELSE run_status' = "ok" /\ df' = DataFrame(rows, run_cols)
    /\ UNCHANGED <<wpoints, md, wpoint_calculator, bpoints, write_status,
                   dfunc_raises, no_workers, taken, running, outbox, index,
                   rows, files, files0, last_call>>
    /\ UNCHANGED notScanVars

\* ---------------------------------------------------------- Scanner.write
\* df.empty
Empty(frame) == frame.rows = <<>> \/ frame.cols = <<>>

\* str.lower on the policies of the model
lower(str) ==
    CASE str = "OVERWRITE" -> "overwrite"
      [] OTHER -> str

\* A check for existing files that never finds one.
exists_never(path) == FALSE

\* p.exists()
exists(path) == files[path] # None

\* Scanner.write up to "From here on we definitely overwrite": the empty
\* frame, the directories and the overwrite policy.  answer is what the user
\* replies to the prompt.
write_start(overwrite, answer) ==
    /\ pc \in {"idle", "ran"}
    /\ IF Empty(df)
       THEN pc' = "end" /\ write_status' = "ignored"
       ELSE IF exists("metadata") \/ exists("data")
       THEN CASE lower(overwrite) = "ask" ->
                    IF answer
                    THEN pc' = "write_metadata" /\ UNCHANGED write_status
                    ELSE pc' = "end" /\ write_status' = "declined"
              [] lower(overwrite) = "overwrite" ->
                    pc' = "write_metadata" /\ UNCHANGED write_status
              [] lower(overwrite) = "raise" ->
                    pc' = "end" /\ write_status' = "FileExistsError"
              [] OTHER ->
                    pc' = "end" /\ write_status' = "ValueError"
       ELSE pc' = "write_metadata" /\ UNCHANGED write_status
    /\ UNCHANGED <<wpoints, md, wpoint_calculator, df, bpoints, run_status,
                   dfunc_raises, no_workers, taken, running, outbox, index,
                   rows, files, files0, last_call>>
    /\ UNCHANGED notScanVars

\* Scanner.write, 2: the metadata file is opened for writing and dumped.
write_metadata ==
    /\ pc = "write_metadata"
    /\ files' = [files EXCEPT !["metadata"] = Some(md)]
    /\ pc' = "write_data"
    /\ UNCHANGED <<wpoints, md, wpoint_calculator, df, bpoints, run_status,
                   write_status, dfunc_raises, no_workers, taken, running,
                   outbox, index, rows, files0, last_call>>
    /\ UNCHANGED notScanVars

\* Scanner.write, 3: the data file is opened for writing and filled.
write_data ==
    /\ pc = "write_data"
    /\ files' = [files EXCEPT !["data"] = Some(df)]
    /\ pc' = "end"
    /\ write_status' = "ok"
    /\ UNCHANGED <<wpoints, md, wpoint_calculator, df, bpoints, run_status,
                   dfunc_raises, no_workers, taken, running, outbox, index,
                   rows, files0, last_call>>
    /\ UNCHANGED notScanVars

\* An interrupt (KeyboardInterrupt) arrives while Scanner.write is writing:
\* before the metadata file is opened, or between the two files.
interrupt ==
    /\ pc \in {"write_metadata", "write_data"}
    /\ pc' = "end"
    /\ write_status' = "KeyboardInterrupt"
    /\ UNCHANGED <<wpoints, md, wpoint_calculator, df, bpoints, run_status,
                   dfunc_raises, no_workers, taken, running, outbox, index,
                   rows, files, files0, last_call>>
    /\ UNCHANGED notScanVars

\* Files left at the Scanner's output paths by an earlier program.  The
\* Scanner looks at the files only in write, so the model lets them appear
\* once the scan has returned.
earlier_program(metadata, data) ==
    /\ pc = "ran"
    /\ files["metadata"] = None /\ files["data"] = None
    /\ metadata # None \/ data # None
    /\ files' = [files EXCEPT !["metadata"] = metadata, !["data"] = data]
    /\ files0' = files'
    /\ UNCHANGED <<wpoints, md, wpoint_calculator, df, bpoints, pc, run_status,
                   write_status, dfunc_raises, no_workers, taken, running,
                   outbox, index, rows, last_call>>
    /\ UNCHANGED notScanVars

\* ------------------------------------------------- run_parallel (scan.py)
\* The benchmark point lists of the model: P points, numbered downwards.
BpointLists == {[i \in 1..P |-> P + 1 - i] : P \in 0..MaxPoints}

\* run_parallel up to the logger.info: the pool and the submission of all
\* benchmark points.
run_parallel_start(bpts, nw, raises) ==
    /\ pc = "rp_idle"
    /\ bpoints' = bpts
    /\ no_workers' = nw
    /\ dfunc_raises' = raises
    /\ pc' = "rp_prepare"
    /\ UNCHANGED <<wpoints, md, wpoint_calculator, df, run_status, write_status,
                   taken, running, outbox, index, rows, files, files0, last_call>>
    /\ UNCHANGED notScanVars

\* run_parallel: the output directory is made and an existing output file
\* is removed.
run_parallel_prepare ==
    /\ pc = "rp_prepare"
    /\ files' = [files EXCEPT !["output"] = None]
    /\ pc' = "rp_loop"
    /\ UNCHANGED <<wpoints, md, wpoint_calculator, df, bpoints, run_status,
                   write_status, dfunc_raises, no_workers, taken, running,
                   outbox, index, rows, files0, last_call>>
    /\ UNCHANGED notScanVars

\* write_out_bpoint: the file is opened in append mode and the result of
\* the point is added to it.
write_out_bpoint(bpoint, bpoint_result, content) ==
    Some((IF content = None THEN <<>> ELSE the(content))
            \o <<[bpoint |-> bpoint, result |-> bpoint_result]>>)

\* One pass of the result loop of run_parallel.
run_parallel_loop ==
    /\ pc = "rp_loop"
    /\ index < Len(bpoints)
    /\ \E k \in imap_next(outbox, index) :
        /\ outbox' = outbox \ {k}
        /\ IF k = dfunc_raises
           THEN /\ pc' = "rp_end"
                /\ run_status' = "raised"
                /\ UNCHANGED <<files, index>>
           ELSE /\ files' = [files EXCEPT !["output"] =
                        write_out_bpoint(bpoints[index + 1],
                                         calculate_bpoint(bpoints[k]), @)]
                /\ index' = index + 1
                /\ UNCHANGED <<pc, run_status>>
    /\ UNCHANGED <<wpoints, md, wpoint_calculator, df, bpoints, write_status,
                   dfunc_raises, no_workers, taken, running, rows, files0, last_call>>
    /\ UNCHANGED notScanVars

\* run_parallel after the loop: pool.join.
run_parallel_finish ==
    /\ pc = "rp_loop"
    /\ index = Len(bpoints)
    /\ pc' = "rp_end"
    /\ run_status' = "ok"
    /\ UNCHANGED <<wpoints, md, wpoint_calculator, df, bpoints, write_status,
                   dfunc_raises, no_workers, taken, running, outbox, index,
                   rows, files, files0, last_call>>
    /\ UNCHANGED notScanVars

\* ------------------------------------------------------ the specification
\* pd.DataFrame(): the empty table.
EmptyFrame == [cols |-> <<>>, rows |-> <<>>]

\* What files left by an earlier program hold.
OldMetadata == [coeffs |-> <<"old">>, values |-> <<>>, nbins |-> None]

OldData == [cols |-> <<"old">>, rows |-> <<>>]

OldOutput == <<[bpoint |-> 0, result |-> calculate_bpoint(0)]>>

\* Either a fresh Scanner (pc = "idle"), or the scan.py script about to
\* call run_parallel (pc = "rp_idle").
InitScan ==
    /\ wpoints = <<>>
    /\ md = [coeffs |-> <<>>, values |-> <<>>, nbins |-> None]
    /\ wpoint_calculator = None
    /\ df = EmptyFrame
    /\ bpoints = <<>>
    /\ run_status = "none"
    /\ write_status = "none"
    /\ dfunc_raises = 0
    /\ no_workers = 0
    /\ taken = 0
    /\ running = {}
    /\ outbox = {}
    /\ index = 0
    /\ rows = <<>>
    /\ \/ /\ pc = "idle"
          /\ files = [metadata |-> None, data |-> None, output |-> None]
       \/ /\ pc = "rp_idle"
          /\ files \in {[metadata |-> None, data |-> None, output |-> o] :
                            o \in {None, Some(OldOutput)}}
    /\ files0 = files
    /\ last_call = None

\* The Scanner as constructed, for the specifications of the other parts.
IdleScan == InitScan /\ pc = "idle"

NextScan ==
    \/ \E values \in Dicts(ValueLists) : set_wpoints_grid(values)
    \/ \E ranges \in Dicts(Ranges) : set_wpoints_equidist(ranges)
    \/ \E binning \in Binnings : set_dfunction(Some(binning), 0, FALSE)
    \/ \E func \in RawFunctions : set_dfunction(None, func.rawlen, func.ragged)
    \/ \E arg \in 0..MaxWorkers, cpu_count \in 0..MaxWorkers,
          raises \in 0..Len(wpoints) : run_start(arg, cpu_count, raises)
    \/ worker_take
    \/ \E k \in running : worker_finish(k)
    \/ run_loop
    \/ run_finish
    \/ \E overwrite \in Policies :
          \E answer \in IF lower(overwrite) = "ask" THEN BOOLEAN ELSE {FALSE} :
              write_start(overwrite, answer)
    \/ write_metadata
    \/ write_data
    \/ interrupt
    \/ \E metadata \in {None, Some(OldMetadata)}, data \in {None, Some(OldData)} :
          earlier_program(metadata, data)
    \/ \E bpts \in BpointLists, nw \in 1..MaxWorkers :
          \E raises \in 0..Len(bpts) : run_parallel_start(bpts, nw, raises)
    \/ run_parallel_prepare
    \/ run_parallel_loop
    \/ run_parallel_finish


\* ------------------------------------------- Data accessors (data.py)
\* c.startswith("bin"), on the column names of the model
startswith_bin(c) == c \in Range(BinNames)

\* All columns, as a bin_cols without its filter would return them.
bin_cols_unfiltered(frame) == frame.cols

\* Data.bin_cols
bin_cols(frame) == SelectSeq(frame.cols, startswith_bin)

\* Data.par_cols: the coeffs entry of the sample points' metadata.
par_cols(metadata) == metadata.coeffs

\* Data.n
n(frame) == Len(frame.rows)

\* Data.nbins
nbins(frame) == Len(bin_cols(frame))

\* Data.npars
npars(metadata) == Len(par_cols(metadata))

\* ================================================== claims about the scan
\* The orchestrating process is a Scanner (not the scan.py script).
IsScanner == pc \in {"idle", "loop", "ran", "write_metadata", "write_data", "end"}

\* C1: for every list of points, every worker count and every completion
\* order, result k is assembled onto point k: every row Scanner.run has
\* built, the rows of the table it produces, and the entries run_parallel
\* has appended to the output file are in submission order.
C1_SubmissionOrder ==
    /\ \A r \in DOMAIN rows :
          rows[r] = wc_values(wpoints[r]) \o calc(wpoints[r])
    /\ (IsScanner /\ run_status = "ok") =>
          /\ Len(df.rows) = Len(wpoints)
          /\ \A r \in DOMAIN wpoints :
                LET assembled == wc_values(wpoints[r]) \o calc(wpoints[r])
                IN  \A c \in DOMAIN assembled : df.rows[r][c] = assembled[c]
    /\ pc \in {"rp_loop", "rp_end"} =>
          LET lines == IF files["output"] = None THEN <<>> ELSE the(files["output"])
          IN  /\ Len(lines) = index
              /\ \A r \in DOMAIN lines :
                    lines[r] = [bpoint |-> bpoints[r],
                                result |-> calculate_bpoint(bpoints[r])]
              /\ (pc = "rp_end" /\ run_status = "ok") => index = Len(bpoints)

\* C1 witness: a later task has finished while the next one in submission
\* order is still being evaluated, after a first row was assembled.
C1_Witness ==
    /\ pc = "loop"
    /\ index >= 1
    /\ index + 1 \in running
    /\ \E k \in outbox : k > index + 1

\* C2: if the evaluation function fails at some point, the run aborts and
\* no output file is written or modified, neither by run_parallel nor by
\* Scanner.run followed by Scanner.write.
C2_NoOutputOnFailure ==
    (run_status = "raised" /\ dfunc_raises # 0) => files = files0

\* C2, for the Scanner alone: a failed Scanner.run followed by write leaves
\* the files as they were.
C2_ScannerNoOutputOnFailure ==
    (IsScanner /\ run_status = "raised" /\ dfunc_raises # 0) => files = files0

\* Names in ascending lexicographic order
IsSorted(names) ==
    \A i, j \in DOMAIN names : i < j => NameLeq(names[i], names[j])

\* C3: in the table produced by Scanner.run the parameter columns are in
\* lexicographic name order and every row holds each parameter's value
\* under the column of that parameter's name.
C3_ColumnsUnderOwnName ==
    (IsScanner /\ run_status = "ok") =>
        /\ IsSorted(par_cols(md))
        /\ \A r \in DOMAIN df.rows : \A j \in 1..npars(md) :
              df.rows[r][j] = wpoints[r][df.cols[j]]

\* The points are the full cartesian product of the value lists: as many as
\* the product of the counts, and every combination of one value per
\* parameter is among them.
FullProduct(values, points) ==
    /\ Len(points) = SeqProd([i \in DOMAIN values |-> Len(values[i].vals)])
    /\ \A pick \in [DOMAIN values -> 1..MaxVals] :
          (\A i \in DOMAIN values : pick[i] <= Len(values[i].vals)) =>
              \E p \in DOMAIN points : \A i \in DOMAIN values :
                  points[p][values[i].coeff] = values[i].vals[pick[i]]
    /\ (\E i \in DOMAIN values : values[i].vals = <<>>) => points = <<>>

\* C4: set_wpoints_grid and set_wpoints_equidist generate the full cartesian
\* product, with c1*...*ck points for counts c1..ck, and no point when some
\* parameter has no value.
C4_CartesianProduct ==
    last_call # None =>
        LET arg == the(last_call).arg
        IN  IF the(last_call).op = "grid"
            THEN FullProduct(arg, wpoints)
            ELSE /\ FullProduct(grid_config(arg), wpoints)
                 /\ Len(wpoints) = SeqProd([i \in DOMAIN arg |-> arg[i].vals[3]])

\* C4 witness: two parameters with two values each have been set.
C4_Witness ==
    /\ Len(md.values) = 2
    /\ \A i \in DOMAIN md.values : Len(md.values[i].vals) = 2
    /\ Len(wpoints) = 4

\* C5: after a successful run over P points of k parameters with a binning
\* of b bins, the table has P rows, k parameter columns and b bin columns,
\* k + b columns in all.
C5_TableShape ==
    (IsScanner /\ run_status = "ok" /\ the(wpoint_calculator).binning # None) =>
        LET b == Len(the(the(wpoint_calculator).binning)) - 1
            k == Len(md.values)
        IN  /\ n(df) = Len(wpoints)
            /\ npars(md) = k
            /\ nbins(df) = b
            /\ Len(df.cols) = k + b

\* C5 witness: a run over four points of two parameters with two bins has
\* succeeded.
C5_Witness ==
    /\ IsScanner
    /\ run_status = "ok"
    /\ the(wpoint_calculator).binning # None
    /\ Len(wpoints) = 4
    /\ Len(md.values) = 2
    /\ nbins(df) = 2

\* The policies write knows, after str.lower.
KnownPolicy(overwrite) ==
    overwrite \in {"ask", "overwrite", "raise", "OVERWRITE"}

IsPolicy(overwrite, name) ==
    overwrite = name \/ (name = "overwrite" /\ overwrite = "OVERWRITE")

\* One of the two output files of the Scanner is there.
OutputExists == files["metadata"] # None \/ files["data"] # None

\* The two output files of the Scanner.
OutputPair(fs) == <<fs["metadata"], fs["data"]>>

\* What write decides under a policy when an output file exists.
PolicyObeyed(overwrite, answer) ==
    /\ files' = files
    /\ IsPolicy(overwrite, "raise") =>
            pc' = "end" /\ write_status' = "FileExistsError"
    /\ (IsPolicy(overwrite, "ask") /\ ~answer) =>
            pc' = "end" /\ write_status' = "declined"
    /\ (IsPolicy(overwrite, "ask") /\ answer) => pc' = "write_metadata"
    /\ IsPolicy(overwrite, "overwrite") => pc' = "write_metadata"
    /\ pc' = "write_metadata" =>
            \/ IsPolicy(overwrite, "overwrite")
            \/ IsPolicy(overwrite, "ask") /\ answer

\* The files of the pair change only in the two writing steps of write,
\* a refused write leaves them as they were and a completed one has
\* replaced both.
WritesOnlyInWrite ==
    /\ [][(OutputPair(files') # OutputPair(files) /\ files0' = files0) =>
                pc \in {"write_metadata", "write_data"}]_vars
    /\ [](write_status \in {"declined", "FileExistsError", "ValueError", "ignored"} =>
                OutputPair(files) = OutputPair(files0))
    /\ []((pc = "end" /\ write_status = "ok") =>
                OutputPair(files) = <<Some(md), Some(df)>>)

C15_UnknownPolicyFatal ==
    [][\A overwrite \in Policies, answer \in BOOLEAN :
            (~KnownPolicy(overwrite) /\ ~Empty(df) /\ write_start(overwrite, answer)) =>
                /\ pc' = "end"
                /\ write_status' = "ValueError"
                /\ files' = files]_vars

\* C15, when an output file exists: the unknown policy is fatal and
\* nothing is written.
C15_UnknownPolicyFatalIfExists ==
    [][\A overwrite \in Policies, answer \in BOOLEAN :
            (~KnownPolicy(overwrite) /\ ~Empty(df) /\ OutputExists
                /\ write_start(overwrite, answer)) =>
                /\ pc' = "end"
                /\ write_status' = "ValueError"
                /\ files' = files]_vars

\* Some point of the scan has not been evaluated yet.
Unevaluated == taken < Len(Tasks) \/ running # {}

\* C16: no step of a scan that creates, removes or appends to an output
\* file happens while some point is still unevaluated.
C16_WriteAfterWorkers ==
    [][(files' # files /\ files0' = files0) => ~Unevaluated]_vars

\* C16, for the Scanner alone: its files change only once every point has
\* been evaluated.
C16_ScannerWriteAfterWorkers ==
    [][(IsScanner /\ files' # files /\ files0' = files0) => ~Unevaluated]_vars

\* C17: an interrupt during write leaves either the complete previous
\* pair or the complete new pair, never a new metadata file next to an
\* old or missing data file.
C17_NoPartialPair ==
    write_status = "KeyboardInterrupt" =>
        \/ OutputPair(files) = OutputPair(files0)
        \/ OutputPair(files) = <<Some(md), Some(df)>>

\* Scanner.run is called with no points or no distribution function set.
UnsetRun ==
    /\ pc = "idle"
    /\ pc' \in {"ran", "loop"}
    /\ wpoints = <<>> \/ wpoint_calculator = None

\* C21: run before the points or the function are set is an error for the
\* caller (not a normal return), starts no worker and leaves the table
\* unchanged.
C21_UnsetRunIsError ==
    [][UnsetRun => /\ pc' = "ran"
                   /\ run_status' = "raised"
                   /\ taken' = 0 /\ running' = {}
                   /\ df' = df]_vars

\* C21, without the error: such a run starts no worker and leaves the
\* table unchanged.
C21_UnsetRunStartsNothing ==
    [][UnsetRun => /\ pc' = "ran"
                   /\ taken' = 0 /\ running' = {}
                   /\ df' = df]_vars

\* Scanner.run has come to its end, by return or exception.
RunOver == IsScanner /\ pc \notin {"idle", "loop"}

\* The results assembled into the rows do not all have the same length.
Ragged(data) == \E r, q \in DOMAIN data : Len(data[r]) # Len(data[q])

\* C22: assembling the table fails with an error and produces no table
\* whenever the results of the points differ in length or there are no
\* points; no table with short or padded rows is built.
C22_NoTableFromBadResults ==
    (RunOver /\ (wpoints = <<>> \/ Ragged(rows))) =>
        run_status = "raised" /\ df = EmptyFrame

\* C22, for results of different lengths alone: the run fails and builds
\* no table.
C22_NoTableFromRaggedResults ==
    (RunOver /\ Ragged(rows)) => run_status = "raised" /\ df = EmptyFrame

\* C25: with a function set without a binning that returns L values at
\* every point, the table has the L bin columns bin0..bin(L-1), the
\* recorded nbins is L and every row has as many values as there are
\* columns.
C25_RawFunctionTable ==
    (/\ RunOver
     /\ wpoints # <<>>
     /\ index = Len(wpoints)
     /\ wpoint_calculator # None
     /\ the(wpoint_calculator).binning = None
     /\ ~the(wpoint_calculator).ragged) =>
        LET L == the(wpoint_calculator).rawlen
        IN  /\ run_status = "ok"
            /\ bin_cols(df) = [i \in 1..L |-> bin_name(i - 1)]
            /\ md.nbins = Some(L)
            /\ \A r \in DOMAIN df.rows : Len(df.rows[r]) = Len(df.cols)

\* C25, as the code has it: the recorded nbins is the length of the first
\* result minus one unless an earlier set_dfunction with a binning left
\* its own, and a table is built only if that many bin columns fit the rows.
C25_RecordedNbins ==
    (/\ RunOver
     /\ wpoints # <<>>
     /\ index = Len(wpoints)
     /\ wpoint_calculator # None
     /\ the(wpoint_calculator).binning = None
     /\ ~the(wpoint_calculator).ragged) =>
        LET L == the(wpoint_calculator).rawlen
        IN  /\ md.nbins # None
            /\ run_status = "ok" <=> the(md.nbins) = L
            /\ the(md.nbins) # L => df = EmptyFrame

\* ====================================================== the Data container
\* Cluster ids as clustering algorithms hand them out (hierarchical
\* clustering starts at 1, others at 0, ids need not be contiguous).
ClusterIds == {0, 1, 2, 5}

\* None as a value of a column of ids.
NoneId == -1

\* The columns a container of the model can have.
ColumnNames == {"cluster", "cluster_bp", "alt", "alt_bp"}

\* Tables with rows 1..rowcount and no column.
NoColumns(rowcount) == [n |-> rowcount, col |-> [c \in ColumnNames |-> None]]

\* df[name] = values
set_column(frame, name, values) ==
    [frame EXCEPT !.col[name] = Some(values)]

RECURSIVE unique_sorted(_)
\* np.unique: the distinct values in ascending order.
unique_sorted(column) ==
    IF Range(column) = {} THEN <<>>
    ELSE LET m == CHOOSE x \in Range(column) : \A y \in Range(column) : x <= y
         IN  <<m>> \o unique_sorted(SelectSeq(column, LAMBDA x : x # m))

RECURSIVE unique(_)
\* pd.Series.unique: the distinct values in order of first appearance.
unique(column) ==
    IF column = <<>> THEN <<>>
    ELSE <<Head(column)>>
            \o unique(SelectSeq(Tail(column), LAMBDA x : x # Head(column)))

\* range(length)
range(length) == [i \in 1..length |-> i - 1]

\* New names counted from 1 with range(1, length), one name short.
new_cluster_names_from_one(old_cluster_names) ==
    [i \in 1..(Len(old_cluster_names) - 1) |-> i]

\* The new names _rename_clusters_auto gives the old ones.
new_cluster_names(old_cluster_names) == range(Len(old_cluster_names))

\* dict(zip(ks, vs)): pairs up to the shorter list, a later pair replacing
\* an earlier one with the same key.
dict_zip(ks, vs) ==
    LET m == IF Len(ks) <= Len(vs) THEN Len(ks) ELSE Len(vs)
    IN  [k \in {ks[i] : i \in 1..m} |->
            vs[CHOOSE i \in 1..m : ks[i] = k /\ \A j \in 1..m : ks[j] = k => j <= i]]

\* Data._rename_clusters_func, for the function a dict lookup is
_rename_clusters_func(frame, funct, column, new_column) ==
    LET target == IF new_column = None THEN column ELSE the(new_column)
        old == the(frame.col[column])
    IN  set_column(frame, target, [i \in DOMAIN old |-> funct[old[i]]])

\* Data._rename_clusters_dict
_rename_clusters_dict(frame, old2new, column, new_column) ==
    LET clusters_old_unique == Range(unique(the(frame.col[column])))
        completed == [k \in DOMAIN old2new \cup clusters_old_unique |->
                        IF k \in DOMAIN old2new THEN old2new[k] ELSE k]
    IN  _rename_clusters_func(frame, completed, column, new_column)

\* Data._rename_clusters_auto; its call of rename_clusters with a dict goes
\* to _rename_clusters_dict.
_rename_clusters_auto(frame, column, new_column) ==
    LET old_cluster_names == unique(the(frame.col[column]))
        old2new == dict_zip(old_cluster_names, new_cluster_names(old_cluster_names))
    IN  _rename_clusters_dict(frame, old2new, column, new_column)

\* Data.rename_clusters() on the column "cluster"
rename_clusters_auto(new_column) ==
    /\ data_op.name = "none"
    /\ data_before' = data_df
    /\ data_op' = [name |-> "auto", column |-> "cluster", new_column |-> new_column]
    /\ data_df' = _rename_clusters_auto(data_df, "cluster", new_column)
    /\ UNCHANGED <<data_md, data_returned>>
    /\ UNCHANGED notDataVars

\* Data.rename_clusters(old2new) on the column "cluster"
rename_clusters_dict(old2new, new_column) ==
    /\ data_op.name = "none"
    /\ data_before' = data_df
    /\ data_op' = [name |-> "dict", column |-> "cluster", new_column |-> new_column,
                    old2new |-> old2new]
    /\ data_df' = _rename_clusters_dict(data_df, old2new, "cluster", new_column)
    /\ UNCHANGED <<data_md, data_returned>>
    /\ UNCHANGED notDataVars

\* Data.clusters
data_clusters(frame, cluster_column) == unique(the(frame.col[cluster_column]))

\* list(set(clusters)): the distinct requested ids, in one of the orders
\* iterating over a set can have.
list_set(requested) ==
    {s \in SeqSetOfLen(Range(requested), Cardinality(Range(requested))) :
        IsInjective(s)}

\* BundlePlot._filter_clusters without its membership tests.
_filter_clusters_unfiltered(frame, listed) ==
    [selection |-> listed, removed |-> <<>>]

\* BundlePlot._filter_clusters, clusters being list(set(clusters)) already:
\* the selection it returns and the removed ids it warns about.
_filter_clusters(frame, listed) ==
    LET existing == Range(data_clusters(frame, "cluster"))
    IN  [selection |-> SelectSeq(listed, LAMBDA c : c \in existing),
         removed |-> SelectSeq(listed, LAMBDA c : c \notin existing)]

\* BundlePlot(data)._filter_clusters(requested)
filter_clusters(requested) ==
    /\ data_op.name = "none"
    /\ \E listed \in list_set(requested) :
          LET filtered == _filter_clusters(data_df, listed)
          IN  /\ data_returned' = Some(filtered.selection)
              /\ data_op' = [name |-> "filter", column |-> "cluster",
                              new_column |-> None, requested |-> requested,
                              warned |-> filtered.removed]
    /\ data_before' = data_df
    /\ UNCHANGED <<data_df, data_md>>
    /\ UNCHANGED notDataVars

\* The lists of ids a caller asks BundlePlot to plot.
RequestedClusters ==
    UNION {SeqSetOfLen(ClusterIds, count) : count \in 0..MaxRequested}

\* The dicts a caller passes to rename_clusters.
RenameDicts == UNION {[K -> ClusterIds] : K \in SUBSET ClusterIds}

\* Nothing is recorded under the "cluster" key of the metadata.  An entry
\* data_md[name] = TRUE is Data.md["cluster"][name] holding the engine's md
\* (the very object, not a copy of it).
NoClusterMetadata == [c \in ColumnNames |-> FALSE]

\* A container with a column of cluster ids.  The operations of NextData
\* act on it once: a later operation is the first one on another container.
InitData ==
    /\ \E rowcount \in 0..MaxRows : \E column \in SeqSetOfLen(ClusterIds, rowcount) :
          data_df = set_column(NoColumns(rowcount), "cluster", column)
    /\ data_md = NoClusterMetadata
    /\ data_before = data_df
    /\ data_op = [name |-> "none", column |-> "cluster", new_column |-> None]
    /\ data_returned = None

\* A container without rows, for the specifications of the other parts.
IdleData ==
    /\ data_df = NoColumns(0)
    /\ data_md = NoClusterMetadata
    /\ data_before = data_df
    /\ data_op = [name |-> "none", column |-> "cluster", new_column |-> None]
    /\ data_returned = None

NextData ==
    \/ \E new_column \in {None, Some("alt")} : rename_clusters_auto(new_column)
    \/ \E old2new \in RenameDicts, new_column \in {None, Some("alt")} :
          rename_clusters_dict(old2new, new_column)
    \/ \E requested \in RequestedClusters : filter_clusters(requested)

\* ------------------------------------------------ claims about renaming
\* The column the latest renaming wrote.
Renamed ==
    the(data_df.col[IF data_op.new_column = None THEN "cluster"
                    ELSE the(data_op.new_column)])

\* The column the latest renaming read.
Original == the(data_before.col["cluster"])

\* Ids 0..m-1 in order of first appearance: the first row has id 0 and a
\* row's id is at most one more than the largest id above it.
IsCanonical(column) ==
    /\ column # <<>> => column[1] = 0
    /\ \A i \in DOMAIN column :
          /\ column[i] >= 0
          /\ \A k \in 1..column[i] : \E j \in 1..(i - 1) : column[j] = k - 1

\* C6: after auto-renaming a column with m distinct ids, the ids are
\* exactly 0..m-1, in order of first appearance from the first row down.
C6_AutoRenameCanonical ==
    data_op.name = "auto" =>
        /\ Range(Renamed) = 0..(Cardinality(Range(Original)) - 1)
        /\ IsCanonical(Renamed)

\* C6 witness: an auto-renaming of three rows whose ids were neither
\* contiguous nor ascending.
C6_Witness ==
    /\ data_op.name = "auto"
    /\ Original = <<5, 1, 5>>
    /\ Renamed = <<0, 1, 0>>

\* C7: auto-renaming preserves the partition: two rows have the same id
\* after it iff they had the same id before it.
C7_PartitionPreserved ==
    data_op.name = "auto" =>
        /\ Len(Renamed) = Len(Original)
        /\ \A i, j \in DOMAIN Original :
              (Renamed[i] = Renamed[j]) <=> (Original[i] = Original[j])

\* C7 witness: an auto-renaming of a column in which an old id (0) is also
\* one of the new ids, given to another cluster.
C7_Witness ==
    /\ data_op.name = "auto"
    /\ Original = <<2, 0, 2>>
    /\ Renamed = <<0, 1, 0>>

\* C26: an id that occurs in no row is dropped without failing:
\* _filter_clusters returns exactly the requested ids that exist in the
\* data, each once, and warns about the others; rename_clusters with a dict
\* that has a key matching no row returns and leaves the id of every row
\* whose id is not a key of the dict unchanged.
C26_UnknownIdsDropped ==
    /\ data_op.name = "filter" =>
          /\ data_returned # None
          /\ IsInjective(the(data_returned))
          /\ Range(the(data_returned))
                = Range(data_op.requested) \cap Range(Original)
          /\ Range(data_op.warned) = Range(data_op.requested) \ Range(Original)
          /\ data_df = data_before
    /\ data_op.name = "dict" =>
          /\ Len(Renamed) = Len(Original)
          /\ \A i \in DOMAIN Original :
                IF Original[i] \in DOMAIN data_op.old2new
                THEN Renamed[i] = data_op.old2new[Original[i]]
                ELSE Renamed[i] = Original[i]

\* C26 witness: ids are requested of which one is in the data and one is
\* not; the one is returned, the other warned about.
C26_Witness ==
    /\ data_op.name = "filter"
    /\ Original = <<5, 1, 5>>
    /\ data_op.requested = <<2, 5>>
    /\ data_returned = Some(<<5>>)
    /\ data_op.warned = <<2>>

\* C26, the renaming: a dict with a key that is the id of no row, applied
\* to rows of which one has an id the dict does not cover.
C26_RenameWitness ==
    /\ data_op.name = "dict"
    /\ Original = <<5, 1, 5>>
    /\ DOMAIN data_op.old2new = {2, 5}
    /\ Renamed = <<0, 1, 0>>

\* ------------------------------------------ subsets of the sample points
\* The columns of a scanned and clustered table: the index, the parameters
\* and the benchmark flags, under the default name or under another one.
SubsetColumns == {"index", "bpoint", "bp"} \cup CoeffNames

\* The values a parameter takes in the tables of the model.
ParamValues(param) == IF param = "CVL" THEN {0, 1, 3} ELSE {0, 1}

abs(x) == IF x < 0 THEN -x ELSE x

\* a.argmin(): the first position of the smallest entry (a is not empty).
argmin(a) ==
    CHOOSE i \in DOMAIN a :
        /\ \A j \in DOMAIN a : a[i] <= a[j]
        /\ \A j \in 1..(i - 1) : a[j] > a[i]

\* df[selector]: the rows the boolean selector keeps, in every column.
select_rows(frame, selector) ==
    LET kept == SelectSeq([i \in 1..frame.n |-> i], LAMBDA i : selector[i])
    IN  [n |-> Len(kept),
         col |-> [c \in DOMAIN frame.col |->
                    IF frame.col[c] = None THEN None
                    ELSE Some([i \in DOMAIN kept |-> the(frame.col[c])[kept[i]]])]]

\* The rows fix_param selects for one parameter: those whose value is the
\* available value nearest to one of the values asked for.
param_selector(frame, param, values) ==
    LET available_values == the(frame.col[param])
        nearest_value(value) ==
            available_values[argmin([i \in DOMAIN available_values |->
                                        abs(available_values[i] - value)])]
    IN  [i \in 1..frame.n |->
            \E k \in DOMAIN values : available_values[i] = nearest_value(values[k])]

\* Data.fix_param(inplace=True, ...) on a table: the table it leaves and the
\* exception it raises.  kwargs maps parameter names to lists of values.
\* argmin raises ValueError on a table without rows, df[bpoint_column]
\* raises KeyError when there is no such column.
fix_param_inplace(frame, keep_bpoints, bpoint_column, kwargs) ==
    IF \E param \in DOMAIN kwargs : kwargs[param] # <<>> /\ frame.n = 0
    THEN [df |-> frame, exc |-> "ValueError"]
    ELSE IF keep_bpoints /\ frame.col[bpoint_column] = None
    THEN [df |-> frame, exc |-> "KeyError"]
    ELSE LET selector ==
                [i \in 1..frame.n |->
                    \/ \A param \in DOMAIN kwargs :
                          param_selector(frame, param, kwargs[param])[i]
                    \/ keep_bpoints /\ the(frame.col[bpoint_column])[i]]
         IN  [df |-> select_rows(frame, selector), exc |-> "none"]

\* new_obj = self: another name for the receiver, not a copy of it.
alias(obj) == [obj |-> obj, shared |-> TRUE]

\* copy.deepcopy(self): an object that shares nothing with the receiver.
deepcopy(obj) == [obj |-> obj, shared |-> FALSE]

\* Data.fix_param: the receiver's table afterwards, the container returned
\* and the exception raised.  The call on the copy passes bpoints and the
\* parameters on, not bpoint_column.
fix_param_result(self, inplace, keep_bpoints, bpoint_column, kwargs) ==
    IF inplace
    THEN LET done == fix_param_inplace(self.df, keep_bpoints, bpoint_column, kwargs)
         IN  [self |-> done.df, returned |-> None, exc |-> done.exc]
    ELSE LET new_obj == deepcopy(self)
             done == fix_param_inplace(new_obj.obj.df, keep_bpoints, "bpoint", kwargs)
         IN  [self |-> IF new_obj.shared THEN done.df ELSE self.df,
              returned |-> IF done.exc = "none"
                           THEN Some([df |-> done.df, md |-> new_obj.obj.md])
                           ELSE None,
              exc |-> done.exc]

\* Data.only_bpoints(column, inplace=True) on a table: the table it leaves
\* and the exception it raises (KeyError when there is no such column).
only_bpoints_inplace(frame, column) ==
    IF frame.col[column] = None
    THEN [df |-> frame, exc |-> "KeyError"]
    ELSE [df |-> select_rows(frame, the(frame.col[column])), exc |-> "none"]

\* Data.only_bpoints: the receiver's table afterwards, the container
\* returned and the exception raised.  The call on the copy does not pass
\* column on.
only_bpoints_result(self, column, inplace) ==
    IF inplace
    THEN LET done == only_bpoints_inplace(self.df, column)
         IN  [self |-> done.df, returned |-> None, exc |-> done.exc]
    ELSE LET new_obj == deepcopy(self)
             done == only_bpoints_inplace(new_obj.obj.df, "bpoint")
         IN  [self |-> IF new_obj.shared THEN done.df ELSE self.df,
              returned |-> IF done.exc = "none"
                           THEN Some([df |-> done.df, md |-> new_obj.obj.md])
                           ELSE None,
              exc |-> done.exc]

\* Data.only_bpoints(column, inplace)
only_bpoints(column, inplace) ==
    /\ data_op.name = "none"
    /\ data_before' = data_df
    /\ LET result == only_bpoints_result([df |-> data_df, md |-> data_md],
                                         column, inplace)
       IN  /\ data_df' = result.self
           /\ data_returned' = result.returned
           /\ data_op' = [name |-> "only_bpoints", inplace |-> inplace,
                          bpoints |-> TRUE, bpoint_column |-> column,
                          kwargs |-> <<>>, exc |-> result.exc]
    /\ UNCHANGED data_md
    /\ UNCHANGED notDataVars

\* self.df[param].min() and .max(); of an empty column they are nan, which
\* the model writes 0 (fix_param then fails on the empty table).
col_min(column) ==
    IF column = <<>> THEN 0
    ELSE CHOOSE x \in Range(column) : \A y \in Range(column) : x <= y

col_max(column) ==
    IF column = <<>> THEN 0
    ELSE CHOOSE x \in Range(column) : \A y \in Range(column) : x >= y

\* Data.sample_param: the values it asks fix_param for.  A specification is
\* <<npoints>> or <<min, max, npoints>>.
fix_kwargs(frame, kwargs) ==
    [param \in DOMAIN kwargs |->
        LET value == kwargs[param]
            column == the(frame.col[param])
        IN  IF Len(value) = 3 THEN linspace(value[1], value[2], value[3])
            ELSE linspace(col_min(column), col_max(column), value[1])]

\* Data.fix_param(inplace, bpoints, bpoint_column, **kwargs)
fix_param(inplace, keep_bpoints, bpoint_column, kwargs) ==
    /\ data_op.name = "none"
    /\ data_before' = data_df
    /\ LET result == fix_param_result([df |-> data_df, md |-> data_md], inplace,
                                      keep_bpoints, bpoint_column, kwargs)
       IN  /\ data_df' = result.self
           /\ data_returned' = result.returned
           /\ data_op' = [name |-> "fix_param", inplace |-> inplace,
                          bpoints |-> keep_bpoints, bpoint_column |-> bpoint_column,
                          kwargs |-> kwargs, exc |-> result.exc]
    /\ UNCHANGED data_md
    /\ UNCHANGED notDataVars

\* Data.sample_param(bpoints, inplace, **kwargs)
sample_param(keep_bpoints, inplace, kwargs) ==
    /\ data_op.name = "none"
    /\ data_before' = data_df
    /\ LET result == fix_param_result([df |-> data_df, md |-> data_md], inplace,
                                      keep_bpoints, "bpoint", fix_kwargs(data_df, kwargs))
       IN  /\ data_df' = result.self
           /\ data_returned' = result.returned
           /\ data_op' = [name |-> "sample_param", inplace |-> inplace,
                          bpoints |-> keep_bpoints, bpoint_column |-> "bpoint",
                          kwargs |-> fix_kwargs(data_df, kwargs), exc |-> result.exc]
    /\ UNCHANGED data_md
    /\ UNCHANGED notDataVars

\* Functions from some of the parameter names to the choices of each.
Choices(choice) ==
    UNION {{f \in [K -> UNION {choice[param] : param \in K}] :
                \A param \in K : f[param] \in choice[param]} :
           K \in SUBSET CoeffNames}

\* The values a caller fixes the parameters to: one value each.
FixKwargs ==
    Choices([param \in CoeffNames |->
                IF param = "CVL" THEN {<<0>>, <<2>>} ELSE {<<1>>}])

\* The ranges a caller samples the parameters in.
SampleKwargs ==
    Choices([param \in CoeffNames |->
                IF param = "CVL" THEN {<<1>>, <<2>>, <<1, 3, 2>>} ELSE {<<0>>}])

\* The largest number of sample points of a table to take a subset of.
MaxSubsetRows == 2

\* A table with an index, two parameter columns and benchmark flags.
SubsetFrame(cvl, csl, flags, bpoint_column) ==
    [n |-> Len(cvl),
     col |-> [c \in SubsetColumns |->
                CASE c = "index" -> Some([i \in DOMAIN cvl |-> i - 1])
                  [] c = "CVL" -> Some(cvl)
                  [] c = "CSL" -> Some(csl)
                  [] c = bpoint_column -> Some(flags)
                  [] OTHER -> None]]

\* A container of sample points whose benchmark points have been selected.
InitSubset ==
    /\ \E rowcount \in 0..MaxSubsetRows, bpoint_column \in {"bpoint", "bp"} :
         \E cvl \in SeqSetOfLen(ParamValues("CVL"), rowcount),
            csl \in SeqSetOfLen(ParamValues("CSL"), rowcount),
            flags \in SeqSetOfLen(BOOLEAN, rowcount) :
              data_df = SubsetFrame(cvl, csl, flags, bpoint_column)
    /\ data_md = NoClusterMetadata
    /\ data_before = data_df
    /\ data_op = [name |-> "none", column |-> "cluster", new_column |-> None]
    /\ data_returned = None

NextSubset ==
    \/ \E inplace \in BOOLEAN, keep_bpoints \in BOOLEAN,
          bpoint_column \in {"bpoint", "bp"}, kwargs \in FixKwargs :
            fix_param(inplace, keep_bpoints, bpoint_column, kwargs)
    \/ \E keep_bpoints \in BOOLEAN, inplace \in BOOLEAN, kwargs \in SampleKwargs :
            sample_param(keep_bpoints, inplace, kwargs)
    \/ \E column \in {"bpoint", "bp"}, inplace \in BOOLEAN :
            only_bpoints(column, inplace)

\* ----------------------------------------------- claims about the subsets
IsSubsetting == data_op.name \in {"fix_param", "sample_param"}

\* C11: fix_param and sample_param without inplace=True leave the receiver's
\* table and metadata as they were and return a new container.
C11_PureByDefault ==
    (IsSubsetting /\ ~data_op.inplace) =>
        /\ data_df = data_before
        /\ data_md = NoClusterMetadata
        /\ data_op.exc = "none" => data_returned # None

\* C11 witness: a call without inplace has returned a container with fewer
\* rows than the receiver has.
C11_Witness ==
    /\ IsSubsetting
    /\ ~data_op.inplace
    /\ data_returned # None
    /\ the(data_returned).df.n < data_df.n

\* The table the latest subsetting operation produced: the receiver's when
\* in place, the returned container's otherwise.
Subset == IF data_op.inplace THEN data_df ELSE the(data_returned).df

\* The available values of a parameter nearest to a target.
NearestValues(frame, param, target) ==
    {v \in Range(the(frame.col[param])) :
        \A w \in Range(the(frame.col[param])) : abs(v - target) <= abs(w - target)}

\* Row i of the table has, for every named parameter, a value nearest to the
\* parameter's target.
IsNearestRow(frame, kwargs, i) ==
    \A param \in DOMAIN kwargs :
        the(frame.col[param])[i] \in NearestValues(frame, param, kwargs[param][1])

\* The nearest value of every named parameter is unique.
NoTie(frame, kwargs) ==
    \A param \in DOMAIN kwargs :
        Cardinality(NearestValues(frame, param, kwargs[param][1])) = 1

\* Row i of the table is flagged as a benchmark point.
IsBenchmarkRow(frame, i) ==
    IF frame.col["bpoint"] # None THEN the(frame.col["bpoint"])[i]
    ELSE the(frame.col["bp"])[i]

\* Row i of the table before the operation is in the table it produced.
IsKept(i) ==
    the(data_before.col["index"])[i] \in Range(the(Subset.col["index"]))

\* C12: fix_param with one target value per named parameter returns the rows
\* whose value of every named parameter is the available value nearest to
\* its target, and always retains the benchmark-flagged rows.
C12_NearestAndBenchmarks ==
    (data_op.name = "fix_param" /\ data_op.exc = "none") =>
        \A i \in 1..data_before.n :
            /\ IsKept(i) =>
                  \/ IsNearestRow(data_before, data_op.kwargs, i)
                  \/ IsBenchmarkRow(data_before, i)
            /\ (IsNearestRow(data_before, data_op.kwargs, i)
                    /\ NoTie(data_before, data_op.kwargs)) => IsKept(i)
            /\ IsBenchmarkRow(data_before, i) => IsKept(i)

\* C12, for the rows alone: without the bpoints option fix_param returns the
\* rows whose value of every named parameter is nearest to its target.
C12_NearestRows ==
    (data_op.name = "fix_param" /\ data_op.exc = "none" /\ ~data_op.bpoints) =>
        \A i \in 1..data_before.n :
            /\ IsKept(i) => IsNearestRow(data_before, data_op.kwargs, i)
            /\ (IsNearestRow(data_before, data_op.kwargs, i)
                    /\ NoTie(data_before, data_op.kwargs)) => IsKept(i)

\* What the latest only_bpoints or fix_param call does to the receiver when
\* it is made with inplace=True and otherwise the same arguments.
SameCallInplace ==
    LET self == [df |-> data_before, md |-> data_md]
    IN  IF data_op.name = "only_bpoints"
        THEN only_bpoints_result(self, data_op.bpoint_column, TRUE)
        ELSE fix_param_result(self, TRUE, data_op.bpoints,
                              data_op.bpoint_column, data_op.kwargs)

\* C29: for every argument list, with a benchmark column of another name
\* too, the container a call of only_bpoints or fix_param without inplace
\* returns has the rows the receiver has after the same call with
\* inplace=True.
C29_SameRowsAsInplace ==
    (data_op.name \in {"only_bpoints", "fix_param"} /\ ~data_op.inplace) =>
        /\ data_op.exc = SameCallInplace.exc
        /\ data_op.exc = "none" =>
              /\ data_returned # None
              /\ the(data_returned).df = SameCallInplace.self

\* C29 with the benchmark column under its default name: the container
\* returned has the rows the receiver has after the call in place.
C29_SameRowsDefaultColumn ==
    (/\ data_op.name \in {"only_bpoints", "fix_param"}
     /\ ~data_op.inplace
     /\ data_op.bpoint_column = "bpoint") =>
        /\ data_op.exc = SameCallInplace.exc
        /\ data_op.exc = "none" =>
              /\ data_returned # None
              /\ the(data_returned).df = SameCallInplace.self

\* ====================================================== the cluster engine
\* Keyword arguments of cluster and select_bpoints, as opaque tokens.
Kwargs == {"k1", "k2"}

\* The ids the clustering implementations of the model hand out.
EngineIds == {1, 2}

\* The names write is called with.
WriteNames == {"cluster", "alt"}

\* name + "_bp"
bp_name(name) == IF name = "cluster" THEN "cluster_bp" ELSE "alt_bp"

\* Cluster.md as __init__ leaves it (git and time are left out).
NoEngineMetadata ==
    [cluster_args |-> None, n_clusters |-> None, select_bpoints_args |-> None]

\* Benchmark selection policies: the first or the last row of each cluster.
BpointPolicies(clusters) ==
    {[i \in DOMAIN clusters |-> \A j \in 1..(i - 1) : clusters[j] # clusters[i]],
     [i \in DOMAIN clusters |->
        \A j \in (i + 1)..Len(clusters) : clusters[j] # clusters[i]]}

\* Cluster.cluster(**kwargs).  result is what the implementation _cluster
\* returns, None when it raises.
cluster(kwargs, result) ==
    /\ cl_md' = [cl_md EXCEPT
                    !.cluster_args = Some(kwargs),
                    !.n_clusters = IF result = None THEN @
                                   ELSE Some(Cardinality(Range(the(result))))]
    /\ cl_clusters' = IF result = None THEN cl_clusters ELSE result
    /\ cl_raised' = (result = None)
    /\ cl_calls < MaxCalls
    /\ cl_calls' = cl_calls + 1
    /\ UNCHANGED <<cl_bpoints, dataVars>>
    /\ UNCHANGED notClusterVars

\* Cluster.select_bpoints(**kwargs).  result is what the implementation
\* _select_bpoints returns after recording its arguments, None when it raises
\* (as the one of the base class does).
select_bpoints(kwargs, result) ==
    /\ cl_md' = [cl_md EXCEPT !.select_bpoints_args = Some(kwargs)]
    /\ cl_bpoints' = IF result = None THEN cl_bpoints ELSE result
    /\ cl_raised' = (result = None)
    /\ cl_calls < MaxCalls
    /\ cl_calls' = cl_calls + 1
    /\ UNCHANGED <<cl_clusters, dataVars>>
    /\ UNCHANGED notClusterVars

\* Cluster.write without its call of rename_clusters.
write_frame_unrenamed(frame, name, clusters, flags) ==
    LET assigned == set_column(frame, name,
                        IF clusters = None THEN [i \in 1..frame.n |-> NoneId]
                        ELSE the(clusters))
    IN  IF flags # None
        THEN set_column(assigned, bp_name(name), the(flags))
        ELSE assigned

\* Cluster.write: what it does to the table of the container.  Assigning
\* None to a column fills it with None.
write_frame(frame, name, clusters, flags) ==
    LET assigned == set_column(frame, name,
                        IF clusters = None THEN [i \in 1..frame.n |-> NoneId]
                        ELSE the(clusters))
        renamed == _rename_clusters_auto(assigned, name, None)
    IN  IF flags # None
        THEN set_column(renamed, bp_name(name), the(flags))
        ELSE renamed

\* Cluster.write(name)
write(name) ==
    /\ UNCHANGED <<data_before, data_returned>>
    /\ data_op' = [name |-> "write", column |-> name, new_column |-> None,
                    clustered |-> cl_clusters # None]
    /\ data_df' = write_frame(data_df, name, cl_clusters, cl_bpoints)
    /\ data_md' = [data_md EXCEPT ![name] = TRUE]
    /\ cl_raised' = FALSE
    /\ cl_calls < MaxCalls
    /\ cl_calls' = cl_calls + 1
    /\ UNCHANGED <<cl_clusters, cl_bpoints, cl_md>>
    /\ UNCHANGED notClusterVars

\* A fresh engine on a container without cluster columns.
InitCluster ==
    /\ \E rowcount \in 0..MaxRows : data_df = NoColumns(rowcount)
    /\ data_md = NoClusterMetadata
    /\ data_before = data_df
    /\ data_op = [name |-> "none", column |-> "cluster", new_column |-> None]
    /\ data_returned = None
    /\ cl_clusters = None
    /\ cl_bpoints = None
    /\ cl_md = NoEngineMetadata
    /\ cl_raised = FALSE
    /\ cl_calls = 0

\* No engine in use, for the specifications of the other parts.
IdleCluster ==
    /\ cl_clusters = None
    /\ cl_bpoints = None
    /\ cl_md = NoEngineMetadata
    /\ cl_raised = FALSE
    /\ cl_calls = 0

NextCluster ==
    \/ \E kwargs \in Kwargs :
          \E result \in {None} \cup {Some(a) : a \in SeqSetOfLen(EngineIds, data_df.n)} :
              cluster(kwargs, result)
    \/ \E kwargs \in Kwargs :
          \E result \in {None} \cup
                (IF cl_clusters = None THEN {}
                 ELSE {Some(b) : b \in BpointPolicies(the(cl_clusters))}) :
              select_bpoints(kwargs, result)
    \/ \E name \in WriteNames : write(name)

\* ----------------------------------------- claims about the cluster engine
\* C8: write on an engine on which cluster has not yet succeeded raises and
\* leaves the container's table and metadata unchanged.
C8_WriteBeforeClusterRaises ==
    [][\A name \in WriteNames :
          (cl_clusters = None /\ write(name)) =>
              (cl_raised' /\ data_df' = data_df /\ data_md' = data_md)]_vars

\* C9: write(name) after a successful cluster leaves the engine's assignment
\* in canonical auto-renamed form in the column name, and writes the column
\* name_bp iff benchmark points had been computed.
C9_WriteStoresCanonical ==
    [][\A name \in WriteNames :
          (cl_clusters # None /\ write(name)) =>
              LET written == the(data_df.col[name])'
                  assignment == the(cl_clusters)
              IN  /\ IsCanonical(written)
                  /\ Len(written) = Len(assignment)
                  /\ \A i, j \in DOMAIN assignment :
                        (written[i] = written[j]) <=> (assignment[i] = assignment[j])
                  /\ cl_bpoints # None =>
                        (data_df.col[bp_name(name)])' = cl_bpoints
                  /\ cl_bpoints = None =>
                        (data_df.col[bp_name(name)])' = data_df.col[bp_name(name)]]_vars

\* C9 witness: a write of an assignment whose ids had to be renamed, with
\* benchmark points computed.
C9_Witness ==
    /\ data_op.name = "write"
    /\ cl_clusters # None
    /\ cl_bpoints # None
    /\ data_df.col[data_op.column] # cl_clusters
    /\ data_df.col[bp_name(data_op.column)] = cl_bpoints

\* C28: when cluster or select_bpoints fails, the engine's assignment, its
\* benchmark flags and its recorded metadata are what they were before the
\* call.
C28_FailedCallChangesNothing ==
    [][(cl_calls' = cl_calls + 1 /\ cl_raised') =>
          (/\ cl_clusters' = cl_clusters
           /\ cl_bpoints' = cl_bpoints
           /\ cl_md' = cl_md)]_vars

\* C28, the results alone: a failed call leaves the assignment, the
\* benchmark flags and the recorded n_clusters as they were.
C28_FailedCallKeepsResults ==
    [][(cl_calls' = cl_calls + 1 /\ cl_raised') =>
          (/\ cl_clusters' = cl_clusters
           /\ cl_bpoints' = cl_bpoints
           /\ cl_md'.n_clusters = cl_md.n_clusters)]_vars

\* What the container's metadata holds under cluster.<name>: the engine's
\* md itself once write(name) has put it there.
recorded(name) == IF data_md[name] THEN Some(cl_md) ELSE None

\* C30: after a sequence of cluster, select_bpoints and write calls with a
\* successful cluster before the last write(name), the n_clusters recorded
\* under cluster.<name> is the number of distinct ids in the column name,
\* and the container has as many rows as before.
C30_RecordedCountMatchesColumn ==
    (data_op.name = "write" /\ data_op.clustered) =>
        /\ recorded(data_op.column) # None
        /\ the(recorded(data_op.column)).n_clusters
              = Some(Cardinality(Range(the(data_df.col[data_op.column]))))
        /\ data_df.n = data_before.n

\* C30 right after the write: write(name) after a successful cluster
\* records the number of distinct ids it has put in the column name and
\* keeps the number of rows.
C30_CountMatchesAtWrite ==
    [][\A name \in WriteNames :
          (cl_clusters # None /\ write(name)) =>
              /\ cl_md'.n_clusters
                    = Some(Cardinality(Range(the(data_df.col[name])')))
              /\ data_md'[name]
              /\ data_df'.n = data_df.n]_vars

\* ============================================ the dataframe/metadata bundle
\* Tables, as opaque tokens: two the caller holds, the empty pd.DataFrame()
\* and the one read from the csv file.
Tables == {"df_a", "df_b"}

BlankTable == "df_blank"

FileTable == "df_file"

\* Metadata trees, as opaque tokens: two the caller holds (one of them an
\* empty dict), the empty nested_dict() and the one read from the json file.
Metadata == {"md_a", "md_empty"}

BlankMetadata == "md_blank"

FileMetadata == "md_file"

\* Python's truth value of self.md: None and empty mappings are false.
truthy(metadata) ==
    /\ metadata # None
    /\ the(metadata) \notin {"md_empty", BlankMetadata}

\* Existing DFMD objects: DFMD(), DFMD(df=a, md=a), DFMD(md=a), DFMD(df=b).
Containers ==
    {[df |-> Some(BlankTable), md |-> Some(BlankMetadata)],
     [df |-> Some("df_a"), md |-> Some("md_a")],
     [df |-> None, md |-> Some("md_a")],
     [df |-> Some("df_b"), md |-> None]}

known_kwargs == {"dfmd", "df", "md", "directory", "name", "df_path", "md_path"}

\* The keywords a call may carry: the known ones and one unknown one.
Keywords == known_kwargs \cup {"colour"}

\* State of the constructor between statements: the two attributes and the
\* exception raised so far.
Attrs(table, metadata, exc) == [df |-> table, md |-> metadata, exc |-> exc]

\* DFMD.load_df / DFMD.load_md: open() raises when the file is missing.
load_df(st, readable) ==
    IF readable THEN [st EXCEPT !.df = Some(FileTable)]
    ELSE [st EXCEPT !.exc = "FileNotFoundError"]

load_md(st, readable) ==
    IF readable THEN [st EXCEPT !.md = Some(FileMetadata)]
    ELSE [st EXCEPT !.exc = "FileNotFoundError"]

\* DFMD.load: the table, then the metadata.
load(st, readable) ==
    LET loaded == load_df(st, readable)
    IN  IF loaded.exc # "none" THEN loaded ELSE load_md(loaded, readable)

\* The statements of DFMD.__init__ in order; each is skipped once an
\* exception is under way.  The log argument is left at its default.
init_positional(call) ==
    IF call.nargs = 0 /\ call.kwargs = {}
    THEN Attrs(Some(BlankTable), Some(BlankMetadata), "none")
    ELSE IF call.nargs = 1
    THEN Attrs(call.arg.df, call.arg.md, "none")
    ELSE Attrs(None, None, "none")

init_dfmd(st, call) ==
    IF "dfmd" \in call.kwargs
    THEN Attrs(call.dfmd.df, call.dfmd.md, "none")
    ELSE st

init_directory_name(st, call) ==
    IF call.nargs = 2 THEN load(st, call.readable)
    ELSE IF call.nargs >= 3 THEN [st EXCEPT !.exc = "ValueError"]
    ELSE st

init_unknown_kwargs(st, call) ==
    IF st.exc # "none" THEN st
    ELSE IF call.kwargs \ known_kwargs # {} THEN [st EXCEPT !.exc = "ValueError"]
    ELSE st

init_df(st, call) ==
    IF st.exc # "none" \/ "df" \notin call.kwargs THEN st
    ELSE IF st.df # None THEN [st EXCEPT !.exc = "ValueError"]
    ELSE [st EXCEPT !.df = Some(call.df)]

init_md(st, call) ==
    IF st.exc # "none" \/ "md" \notin call.kwargs THEN st
    ELSE IF truthy(st.md) THEN [st EXCEPT !.exc = "ValueError"]
    ELSE [st EXCEPT !.md = Some(call.md)]

init_directory(st, call) ==
    IF st.exc # "none" \/ "directory" \notin call.kwargs THEN st
    ELSE IF "name" \notin call.kwargs \/ truthy(st.md) \/ st.df # None
    THEN [st EXCEPT !.exc = "ValueError"]
    ELSE load(st, call.readable)

init_df_path(st, call) ==
    IF st.exc # "none" \/ "df_path" \notin call.kwargs THEN st
    ELSE IF st.df # None THEN [st EXCEPT !.exc = "ValueError"]
    ELSE load_df(st, call.readable)

init_md_path(st, call) ==
    IF st.exc # "none" \/ "md_path" \notin call.kwargs THEN st
    ELSE IF truthy(st.md) THEN [st EXCEPT !.exc = "ValueError"]
    ELSE load_md(st, call.readable)

\* What DFMD.__init__ leaves behind for a call.
init_result(call) ==
    init_md_path(
      init_df_path(
        init_directory(
          init_md(
            init_df(
              init_unknown_kwargs(
                init_directory_name(
                  init_dfmd(init_positional(call), call),
                  call),
                call),
              call),
            call),
          call),
        call),
      call)

\* DFMD.__init__(*args, **kwargs)
__init__(call) ==
    /\ init_call' = Some(call)
    /\ LET result == init_result(call)
       IN  /\ self_df' = result.df
           /\ self_md' = result.md
           /\ init_status' = IF result.exc = "none" THEN "ok" ELSE result.exc
    /\ UNCHANGED <<io_pc, io_status, io_call>>
    /\ UNCHANGED notDFMDVars

\* An argument the call does not carry.
NoContainer == [df |-> None, md |-> None]

\* No object under construction yet.
InitDFMD ==
    /\ self_df = None
    /\ self_md = None
    /\ init_call = None
    /\ init_status = "none"
    /\ io_pc = "idle"
    /\ io_status = "none"
    /\ io_call = None

\* One construction per behaviour.  The calls: up to MaxArgs positional
\* arguments (one: a container; two: a directory and a name), any set of
\* keywords, and whether the files the call names exist.
NextDFMD ==
    /\ init_status = "none"
    /\ \E nargs \in 0..MaxArgs, kwargs \in SUBSET Keywords, readable \in BOOLEAN :
         \E arg \in (IF nargs = 1 THEN Containers ELSE {NoContainer}),
            dfmd \in (IF "dfmd" \in kwargs THEN Containers ELSE {NoContainer}),
            table \in (IF "df" \in kwargs THEN Tables ELSE {"df_a"}),
            metadata \in (IF "md" \in kwargs THEN Metadata ELSE {"md_a"}) :
             /\ (nargs = 2 \/ kwargs \cap {"directory", "df_path", "md_path"} # {}
                   \/ readable)
             /\ __init__([nargs |-> nargs, arg |-> arg, kwargs |-> kwargs,
                          dfmd |-> dfmd, df |-> table, md |-> metadata,
                          readable |-> readable])

\* ------------------------------------------------ claims about the bundle
\* Where a call takes the table from, and where the metadata.
TableSources(call) ==
    (IF call.nargs = 1 THEN {"container"} ELSE {})
    \cup (IF call.nargs = 2 THEN {"directory, name"} ELSE {})
    \cup (call.kwargs \cap {"dfmd", "df", "directory", "df_path"})

MetadataSources(call) ==
    (IF call.nargs = 1 THEN {"container"} ELSE {})
    \cup (IF call.nargs = 2 THEN {"directory, name"} ELSE {})
    \cup (call.kwargs \cap {"dfmd", "md", "directory", "md_path"})

Conflicting(call) ==
    \/ Cardinality(TableSources(call)) >= 2
    \/ Cardinality(MetadataSources(call)) >= 2
    \/ ("directory" \in call.kwargs /\ "name" \notin call.kwargs)

\* C10: a construction with two conflicting sources for its table or its
\* metadata, or with a directory without a name, raises; it never returns
\* an object built from one of the sources.
C10_ConflictRaises ==
    (init_call # None /\ Conflicting(the(init_call))) => init_status # "ok"

\* ------------------------------------------------ DFMD.write and DFMD.load
\* The decimal text of the integers of the tables.
IntText == <<"0", "1", "2", "3", "4", "5">>

\* What to_csv writes for a cell, and what read_csv reads from it.
format_cell(i) == IntText[i + 1]

parse_cell(text) == (CHOOSE i \in DOMAIN IntText : IntText[i] = text) - 1

\* df.to_csv(data_file): a header line with the name of the index (empty
\* when it has none) and the column names, then one line per row with the
\* index label and the values.
to_csv(table) ==
    [header |-> <<IF table.index_name = None THEN "" ELSE the(table.index_name)>>
                    \o table.columns,
     lines |-> [r \in DOMAIN table.index |->
                  <<format_cell(table.index[r])>>
                    \o [c \in DOMAIN table.columns |-> format_cell(table.data[r][c])]]]

\* pd.read_csv(data_file): every field of the header is a column (one
\* without a name is called "Unnamed: 0"), the index counts the lines.
read_csv(csv) ==
    [index_name |-> None,
     index |-> [r \in DOMAIN csv.lines |-> r - 1],
     columns |-> [c \in DOMAIN csv.header |->
                    IF csv.header[c] = "" THEN "Unnamed: 0" ELSE csv.header[c]],
     data |-> [r \in DOMAIN csv.lines |->
                 [c \in DOMAIN csv.header |-> parse_cell(csv.lines[r][c])]]]

\* name is one of the columns of the table
has_column(table, name) == \E c \in DOMAIN table.columns : table.columns[c] = name

\* df.set_index(name, inplace=True): the column becomes the index.
set_index(table, name) ==
    LET p == CHOOSE c \in DOMAIN table.columns : table.columns[c] = name
        drop(row) == [c \in 1..(Len(row) - 1) |-> IF c < p THEN row[c] ELSE row[c + 1]]
    IN  [index_name |-> Some(name),
         index |-> [r \in DOMAIN table.data |-> table.data[r][p]],
         columns |-> drop(table.columns),
         data |-> [r \in DOMAIN table.data |-> drop(table.data[r])]]

\* json.dump(self.md, metadata_file, sort_keys=True): the entries in the
\* order of their keys.  A metadata tree is a dict as the grids are.
json_dump(tree) ==
    LET ks == sort(keys(tree))
    IN  [i \in DOMAIN ks |-> [coeff |-> ks[i], vals |-> lookup(tree, ks[i])]]

\* json.load(metadata_file): the entries in the order of the file.
json_load(text) == text

\* handle_overwrite(paths, behavior): what becomes of a write.
handle_overwrite(paths, behavior, answer) ==
    IF behavior \notin {"ask", "overwrite", "raise"} THEN "ValueError"
    ELSE IF \E path \in paths : files[path] # None
    THEN CASE behavior = "ask" -> IF answer THEN "proceed" ELSE "declined"
           [] behavior = "overwrite" -> "proceed"
           [] behavior = "raise" -> "FileExistsError"
    ELSE "proceed"

\* DFMD.write up to its call of write_df: the overwrite policy.
dfmd_write_start(overwrite, answer) ==
    /\ io_pc = "idle"
    /\ io_call' = Some([df |-> self_df, md |-> self_md,
                        overwrite |-> overwrite, answer |-> answer])
    /\ LET verdict == handle_overwrite({"data", "metadata"}, overwrite, answer)
       IN  IF verdict = "proceed"
           THEN io_pc' = "write_df" /\ UNCHANGED io_status
           ELSE io_pc' = "end" /\ io_status' = verdict
    /\ UNCHANGED <<self_df, self_md, init_call, init_status, files, files0>>
    /\ UNCHANGED notFilesVars

\* DFMD.write_df(df_path, overwrite="overwrite")
write_df ==
    /\ io_pc = "write_df"
    /\ files' = [files EXCEPT !["data"] = Some(to_csv(the(self_df)))]
    /\ io_pc' = "write_md"
    /\ UNCHANGED <<self_df, self_md, init_call, init_status, io_status, io_call,
                   files0>>
    /\ UNCHANGED notFilesVars

\* DFMD.write_md(md_path, overwrite="overwrite")
write_md ==
    /\ io_pc = "write_md"
    /\ files' = [files EXCEPT !["metadata"] = Some(json_dump(the(self_md)))]
    /\ io_pc' = "written"
    /\ io_status' = "ok"
    /\ UNCHANGED <<self_df, self_md, init_call, init_status, io_call, files0>>
    /\ UNCHANGED notFilesVars

\* An interrupt arrives while DFMD.write is between its two files.
dfmd_interrupt ==
    /\ io_pc \in {"write_df", "write_md"}
    /\ io_pc' = "end"
    /\ io_status' = "KeyboardInterrupt"
    /\ UNCHANGED <<self_df, self_md, init_call, init_status, io_call, files, files0>>
    /\ UNCHANGED notFilesVars

\* DFMD.load(directory, name): load_df, then load_md.  Each assigns what it
\* has read before the next statement can fail.
dfmd_load ==
    /\ io_pc \in {"idle", "written"}
    /\ io_pc' = IF io_pc = "written" THEN "reloaded" ELSE "loaded"
    /\ IF files["data"] = None
       THEN io_status' = "FileNotFoundError" /\ UNCHANGED <<self_df, self_md>>
       ELSE LET read == read_csv(the(files["data"]))
            IN  IF ~has_column(read, "index")
                THEN /\ io_status' = "KeyError"
                     /\ self_df' = Some(read)
                     /\ UNCHANGED self_md
                ELSE /\ self_df' = Some(set_index(read, "index"))
                     /\ IF files["metadata"] = None
                        THEN io_status' = "FileNotFoundError" /\ UNCHANGED self_md
                        ELSE /\ io_status' = "ok"
                             /\ self_md' = Some(json_load(the(files["metadata"])))
    /\ UNCHANGED <<init_call, init_status, io_call, files, files0>>
    /\ UNCHANGED notFilesVars

\* The index labels of a table: those of some of the rows of a scan.
IndexLabels ==
    {labels \in UNION {SeqSetOfLen(0..(MaxRows - 1), k) : k \in 0..MaxRows} :
        \A i, j \in DOMAIN labels : i < j => labels[i] < labels[j]}

\* The tables of the model: no column, one or two, with cells 0 and 1; the
\* index has the name "index" or none.
PersistTables ==
    UNION {{[index_name |-> index_name, index |-> labels, columns |-> columns,
             data |-> data] :
                index_name \in {None, Some("index")},
                data \in SeqSetOfLen(SeqSetOfLen({0, 1}, Len(columns)), Len(labels))} :
           labels \in IndexLabels, columns \in {<<>>, <<"CVL">>, <<"CVL", "bin0">>}}

\* What the files of an earlier write hold.
OldCsv == to_csv([index_name |-> Some("index"), index |-> <<0>>,
                  columns |-> <<"CSL">>, data |-> <<<<1>>>>])

OldJson == json_dump(<<[coeff |-> "CSL", vals |-> 1]>>)

\* A pair of files an earlier write left at the paths.
dfmd_earlier_program ==
    /\ io_pc = "idle"
    /\ files["data"] = None /\ files["metadata"] = None
    /\ files' = [files EXCEPT !["data"] = Some(OldCsv), !["metadata"] = Some(OldJson)]
    /\ files0' = files'
    /\ UNCHANGED dfmdVars
    /\ UNCHANGED notFilesVars

\* An object holding a table and a metadata tree.
InitPersist ==
    /\ self_df \in {Some(table) : table \in PersistTables}
    /\ self_md \in {Some(tree) : tree \in Dicts({0})}
    /\ init_call = None
    /\ init_status = "ok"
    /\ io_pc = "idle"
    /\ io_status = "none"
    /\ io_call = None

NextPersist ==
    \/ \E overwrite \in Policies, answer \in BOOLEAN : dfmd_write_start(overwrite, answer)
    \/ write_df
    \/ write_md
    \/ dfmd_interrupt
    \/ dfmd_load
    \/ dfmd_earlier_program

\* ------------------------------------------- claims about the persistence
\* Two metadata trees with the same entries.
Equivalent(tree, other) == Range(tree) = Range(other)

\* C13: write followed by load reproduces an identical table (index,
\* columns, values) and an equivalent metadata tree.
C13_RoundTrip ==
    io_pc = "reloaded" =>
        /\ io_status = "ok"
        /\ self_df = the(io_call).df
        /\ Equivalent(the(self_md), the(the(io_call).md))

\* C13, for the tables whose index has the name "index": write followed by
\* load reproduces them.
C13_RoundTripNamedIndex ==
    (io_pc = "reloaded" /\ the(the(io_call).df).index_name = Some("index")) =>
        /\ io_status = "ok"
        /\ self_df = the(io_call).df
        /\ Equivalent(the(self_md), the(the(io_call).md))

\* No DFMD under construction, for the specifications of the other parts.
IdleDFMD == InitDFMD

\* ===================================================== the distance metric
\* The largest number of sample points chi2_metric compares.
MaxMetricPoints == 2

\* The largest number of bins of their distributions.
MaxMetricBins == 1

\* The largest full matrix (rows) and condensed vector (entries) handed to
\* condense_distance_matrix and uncondense_distance_matrix directly.
MaxDim == 3

\* The largest number of calls in a row.
MaxMetricCalls == 2

RECURSIVE gcd(_, _)
gcd(a, b) == IF b = 0 THEN a ELSE gcd(b, a % b)

\* Floating point values, none of them negative: a fraction in lowest
\* terms, inf or nan.  Rounding is left out: the values are compared for
\* equality only with values computed the same way or copied.
Float(a, b) ==
    LET g == gcd(a, b) IN [kind |-> "finite", num |-> a \div g, den |-> b \div g]

zero == Float(0, 1)

inf == [kind |-> "inf", num |-> 1, den |-> 0]

nan == [kind |-> "nan", num |-> 0, den |-> 0]

\* a == b on floating point values: nan equals nothing
eq(x, y) == x.kind # "nan" /\ y.kind # "nan" /\ x = y

\* a / b on arrays of floating point values: a division by zero gives inf
\* or nan (and a warning), no exception.
true_divide(a, b) ==
    IF b = 0 THEN (IF a = 0 THEN nan ELSE inf) ELSE Float(a, b)

\* x + y
add(x, y) ==
    CASE x.kind = "nan" \/ y.kind = "nan" -> nan
      [] x.kind = "inf" \/ y.kind = "inf" -> inf
      [] OTHER -> Float(x.num * y.den + y.num * x.den, x.den * y.den)

\* x / count, count a positive integer
divide_by(x, count) ==
    IF x.kind = "finite" THEN Float(x.num, x.den * count) ELSE x

square(a) == a * a

\* np.square(nom1 - nom2) at [k, l, i], nom1[k, l, i] = n[k] * d[l, i]
nominator(dwe, k, l, i) ==
    square(dwe.norms[k] * dwe.data[l][i] - dwe.norms[l] * dwe.data[k][i])

\* np.square(den1) + np.square(den2) at [k, l, i], den1[k, l, i] = n[k] * e[l, i]
denominator(dwe, k, l, i) ==
    square(dwe.norms[k] * dwe.err[l][i]) + square(dwe.norms[l] * dwe.err[k][i])

summand(dwe, k, l, i) == true_divide(nominator(dwe, k, l, i), denominator(dwe, k, l, i))

\* np.einsum("kli->kl", summand) at [k, l]: the sum over the first b bins
RECURSIVE einsum_kl(_, _, _, _)
einsum_kl(dwe, k, l, b) ==
    IF b = 0 THEN zero
    ELSE add(einsum_kl(dwe, k, l, b - 1), summand(dwe, k, l, b))

chi2ndf(dwe) ==
    [k \in DOMAIN dwe.norms |->
        [l \in DOMAIN dwe.norms |->
            divide_by(einsum_kl(dwe, k, l, dwe.nbins), dwe.nbins)]]

\* Arrays: a full matrix (its rows) or a vector.
Matrix(mat) == [kind |-> "matrix", val |-> mat]

Vector(vals) == [kind |-> "vector", val |-> vals]

\* What a call gives: a value, or an exception.
Returns(value) == [exc |-> "none", value |-> Some(value)]

Raises(exc) == [exc |-> exc, value |-> None]

\* scipy's is_valid_dm(X, throw=True): symmetric with a zero diagonal
is_valid_dm(mat) ==
    /\ \A i, j \in DOMAIN mat : eq(mat[i][j], mat[j][i])
    /\ \A i \in DOMAIN mat : eq(mat[i][i], zero)

\* Where the entry [i, j], i < j, of a full matrix with dd rows is in the
\* condensed vector: the upper triangle, row by row.
condensed_index(i, j, dd) == (i - 1) * dd - ((i - 1) * i) \div 2 + (j - i)

\* The upper triangle only: the entries below the diagonal stay zero.
entry_upper(vals, i, j, dd) ==
    IF i < j THEN vals[condensed_index(i, j, dd)] ELSE zero

\* The entry [i, j] of the full matrix of a condensed vector.
entry(vals, i, j, dd) ==
    CASE i = j -> zero
      [] i < j -> vals[condensed_index(i, j, dd)]
      [] OTHER -> vals[condensed_index(j, i, dd)]

\* scipy.spatial.distance.squareform(X): a vector becomes the full matrix
\* (the empty vector a 1 x 1 matrix), a valid full matrix the vector of its
\* upper triangle (empty for at most one row).
squareform(X) ==
    IF X.kind = "vector"
    THEN LET s == Len(X.val)
         IN  IF s = 0 THEN Returns(Matrix(<<<<zero>>>>))
             ELSE IF ~\E dd \in 2..(s + 1) : dd * (dd - 1) = 2 * s
             THEN Raises("ValueError")
             ELSE LET dd == CHOOSE dd \in 2..(s + 1) : dd * (dd - 1) = 2 * s
                  IN  Returns(Matrix([i \in 1..dd |-> [j \in 1..dd |->
                                        entry(X.val, i, j, dd)]]))
    ELSE LET dd == Len(X.val)
         IN  IF ~is_valid_dm(X.val) THEN Raises("ValueError")
             ELSE IF dd <= 1 THEN Returns(Vector(<<>>))
             ELSE Returns(Vector(
                    [p \in 1..((dd * (dd - 1)) \div 2) |->
                        LET ij == CHOOSE ij \in (1..dd) \X (1..dd) :
                                    /\ ij[1] < ij[2]
                                    /\ condensed_index(ij[1], ij[2], dd) = p
                        IN  X.val[ij[1]][ij[2]]]))

\* What the next call is made on: the input, or what the last call returned.
Current ==
    IF m_calls = <<>> THEN Some(m_input) ELSE m_calls[Len(m_calls)].result.value

IsArray(value) == value # None /\ the(value).kind \in {"matrix", "vector"}

\* condense_distance_matrix(matrix)
condense_distance_matrix ==
    /\ Len(m_calls) < MaxMetricCalls
    /\ IsArray(Current)
    /\ m_calls' = Append(m_calls, [op |-> "condense_distance_matrix", output |-> "",
                                   arg |-> the(Current),
                                   result |-> squareform(the(Current))])
    /\ UNCHANGED m_input
    /\ UNCHANGED notMetricVars

\* uncondense_distance_matrix(vector)
uncondense_distance_matrix ==
    /\ Len(m_calls) < MaxMetricCalls
    /\ IsArray(Current)
    /\ m_calls' = Append(m_calls, [op |-> "uncondense_distance_matrix", output |-> "",
                                   arg |-> the(Current),
                                   result |-> squareform(the(Current))])
    /\ UNCHANGED m_input
    /\ UNCHANGED notMetricVars

\* chi2_metric(dwe, output)
chi2_metric(output) ==
    /\ m_calls = <<>>
    /\ m_input.kind = "dwe"
    /\ m_calls' = <<[op |-> "chi2_metric", output |-> output, arg |-> m_input,
                     result |->
                        CASE output = "condensed" ->
                                squareform(Matrix(chi2ndf(m_input.val)))
                          [] output = "full" -> Returns(Matrix(chi2ndf(m_input.val)))
                          [] OTHER -> Raises("ValueError")]>>
    /\ UNCHANGED m_input
    /\ UNCHANGED notMetricVars

\* The data of some points: a norm for each, and a content and an error
\* for each of its bins.
Dwe(norms, data, err, bins) ==
    [kind |-> "dwe",
     val |-> [norms |-> norms, data |-> data, err |-> err, nbins |-> bins]]

\* The places above the diagonal of a matrix with dd rows.
Above(dd) == {ij \in (1..dd) \X (1..dd) : ij[1] < ij[2]}

\* Square matrices with the entries 0 and 1: the symmetric ones with a zero
\* diagonal, and ones with a non-zero diagonal or with zeros below it.
MatrixInputs ==
    UNION {{Matrix([i \in 1..dd |-> [j \in 1..dd |->
                CASE i = j -> diagonal
                  [] i < j -> upper[<<i, j>>]
                  [] OTHER -> IF mirrored THEN upper[<<j, i>>] ELSE zero]]) :
                upper \in [Above(dd) -> {zero, Float(1, 1)}],
                diagonal \in {zero, Float(1, 1)},
                mirrored \in BOOLEAN} :
           dd \in 0..MaxDim}

\* Vectors with the entries 0 and 1.

VectorInputs ==
    UNION {{Vector(vals) : vals \in SeqSetOfLen({zero, Float(1, 1)}, s)} : s \in 0..MaxDim}

InitMetric ==
    /\ \E points \in 0..MaxMetricPoints, bins \in 0..MaxMetricBins :
         IF bins = 0
         THEN m_input \in MatrixInputs \cup VectorInputs
         ELSE \E norms \in SeqSetOfLen({1, 2}, points),
                 data \in SeqSetOfLen(SeqSetOfLen({0, 1}, bins), points),
                 err \in SeqSetOfLen(SeqSetOfLen({0, 1}, bins), points) :
                    m_input = Dwe(norms, data, err, bins)
    /\ m_calls = <<>>

NextMetric ==
    \/ \E output \in {"condensed", "full", "square"} : chi2_metric(output)
    \/ condense_distance_matrix
    \/ uncondense_distance_matrix

\* --------------------------------------------- claims about the metric
\* The calls of chi2_metric that returned a full matrix.
FullMatrices == {c \in Range(m_calls) : c.op = "chi2_metric" /\ c.output = "full"}

\* Some denominator of the data is zero.
ZeroDenominator(dwe) ==
    \E k, l \in DOMAIN dwe.norms, i \in 1..dwe.nbins : denominator(dwe, k, l, i) = 0

SymmetricZeroDiagonal(mat) ==
    /\ \A i, j \in DOMAIN mat : eq(mat[i][j], mat[j][i])
    /\ \A i \in DOMAIN mat : eq(mat[i][i], zero)

\* C18: for all norms, contents and errors, the full matrix chi2_metric
\* returns is symmetric and zero on the diagonal.
C18_SymmetricZeroDiagonal ==
    \A c \in FullMatrices : SymmetricZeroDiagonal(the(c.result.value).val)

\* C18, for data without a zero denominator: the full matrix is symmetric
\* and zero on the diagonal.
C18_SymmetricIfNoZeroDenominator ==
    \A c \in FullMatrices :
        ~ZeroDenominator(c.arg.val) => SymmetricZeroDiagonal(the(c.result.value).val)

\* C19: if some denominator is zero, chi2_metric fails with an error
\* instead of returning a matrix.
C19_ZeroDenominatorFails ==
    \A c \in Range(m_calls) :
        (c.op = "chi2_metric" /\ c.output \in {"condensed", "full"}
            /\ ZeroDenominator(c.arg.val)) => c.result.exc # "none"

\* C19, for the condensed output: with a zero denominator the call raises
\* (squareform refuses the matrix, which holds a nan).
C19_CondensedFails ==
    \A c \in Range(m_calls) :
        (c.op = "chi2_metric" /\ c.output = "condensed"
            /\ ZeroDenominator(c.arg.val)) => c.result.exc = "ValueError"

\* A symmetric matrix with a zero diagonal.
IsDistanceMatrix(X) ==
    /\ X.kind = "matrix"
    /\ \A i, j \in DOMAIN X.val : X.val[i][j] = X.val[j][i]
    /\ \A i \in DOMAIN X.val : X.val[i][i] = zero

\* The two transforms undo each other on matrices and data of at least
\* least points.
InverseFrom(least) ==
    Len(m_calls) = 2 =>
        LET first == m_calls[1]
            second == m_calls[2]
        IN  /\ (/\ first.op = "condense_distance_matrix"
                /\ IsDistanceMatrix(first.arg)
                /\ Len(first.arg.val) >= least
                /\ second.op = "uncondense_distance_matrix") =>
                    /\ first.result.exc = "none"
                    /\ 2 * Len(the(first.result.value).val) =
                            Len(first.arg.val) * (Len(first.arg.val) - 1)
                    /\ second.result = Returns(first.arg)
            /\ (/\ first.op = "uncondense_distance_matrix"
                /\ first.arg.kind = "vector"
                /\ first.result.exc = "none"
                /\ second.op = "condense_distance_matrix") =>
                    second.result = Returns(first.arg)
            /\ (/\ first.op = "chi2_metric"
                /\ first.output = "condensed"
                /\ first.result.exc = "none"
                /\ Len(first.arg.val.norms) >= least
                /\ second.op = "uncondense_distance_matrix") =>
                    second.result = Returns(Matrix(chi2ndf(first.arg.val)))

\* C20: condense and uncondense are inverse to each other: for every
\* symmetric zero-diagonal n x n matrix M, uncondense(condense(M)) = M and
\* condense(M) has length n(n-1)/2; for every condensed vector v,
\* condense(uncondense(v)) = v; the condensed output of chi2_metric
\* uncondenses to its full output.
C20_Inverse == InverseFrom(0)

\* C20, from one row on: the same for every n >= 1 and for data of at
\* least one point.
C20_InverseFromOne == InverseFrom(1)

\* C20 witness: a matrix of three rows with a non-zero entry has been
\* condensed and uncondensed to itself.
C20_Witness ==
    /\ Len(m_calls) = 2
    /\ m_calls[1].op = "condense_distance_matrix"
    /\ m_calls[2].op = "uncondense_distance_matrix"
    /\ IsDistanceMatrix(m_input)
    /\ Len(m_input.val) = 3
    /\ m_input.val[1][3] # zero
    /\ m_calls[2].result = Returns(m_input)

\* ============================================== the random plot indices
\* The draws after which a call is followed no further.
MaxDraws == 10 * MaxStop + 2

RECURSIVE sorted(_)
\* sorted(list(indizes)): the elements of a set in ascending order.
sorted(indizes) ==
    IF indizes = {} THEN <<>>
    ELSE LET m == CHOOSE x \in indizes : \A y \in indizes : x <= y
         IN  <<m>> \o sorted(indizes \ {m})

\* get_random_indizes(start, stop, n) is called, with count for n.
get_random_indizes(start, stop, count) ==
    /\ ri_pc = "idle"
    /\ ri_args' = Some([start |-> start, stop |-> stop, n |-> count])
    /\ ri_indizes' = {}
    /\ ri_iterations' = 0
    /\ ri_pc' = "while"
    /\ UNCHANGED <<ri_returned, ri_draws>>
    /\ UNCHANGED notPlotVars

\* BundlePlot._plot_bundles: nlines is cut down to the number of rows of
\* the cluster and the indices are drawn from range(len(df_cluster)).
_plot_bundles(len_df_cluster, nlines) ==
    get_random_indizes(0, len_df_cluster,
                       IF len_df_cluster < nlines THEN len_df_cluster ELSE nlines)

\* One pass of the while loop: a draw, which raises ValueError on an empty
\* range, and the test of iterations.
while_body ==
    /\ ri_pc = "while"
    /\ Cardinality(ri_indizes) < the(ri_args).n
    /\ ri_draws < MaxDraws
    /\ ri_draws' = ri_draws + 1
    /\ IF the(ri_args).start >= the(ri_args).stop
       THEN /\ ri_pc' = "raised"
            /\ UNCHANGED ri_indizes
       ELSE /\ \E drawn \in the(ri_args).start..(the(ri_args).stop - 1) :
                  ri_indizes' = ri_indizes \cup {drawn}
            /\ ri_pc' = IF ri_iterations >= 10 * the(ri_args).n
                         THEN "break" ELSE "while"
    /\ UNCHANGED <<ri_args, ri_iterations, ri_returned>>
    /\ UNCHANGED notPlotVars

\* return sorted(list(indizes)), after the loop or the break
while_end ==
    /\ \/ ri_pc = "while" /\ Cardinality(ri_indizes) >= the(ri_args).n
       \/ ri_pc = "break"
    /\ ri_returned' = Some(sorted(ri_indizes))
    /\ ri_pc' = "done"
    /\ UNCHANGED <<ri_args, ri_indizes, ri_iterations, ri_draws>>
    /\ UNCHANGED notPlotVars

NextPlot ==
    \/ \E start \in 0..1, stop \in 0..MaxStop, count \in 0..MaxStop :
          get_random_indizes(start, stop, count)
    \/ \E len_df_cluster \in 0..MaxStop, nlines \in 0..MaxStop :
          _plot_bundles(len_df_cluster, nlines)
    \/ while_body
    \/ while_end

\* ------------------------------------- claims about the random indices
\* C27: get_random_indizes terminates for every input: it gives up after
\* about 10*n draws when there are fewer than n integers in [start, stop),
\* so such a call never makes more than 10*n + 1 draws; and what a call
\* returns is sorted, without duplicates and within [start, stop).
C27_BoundedDraws ==
    /\ (ri_args # None
          /\ the(ri_args).stop - the(ri_args).start < the(ri_args).n) =>
              ri_draws <= 10 * the(ri_args).n + 1
    /\ ri_pc = "done" =>
          LET result == the(ri_returned)
          IN  /\ \A i, j \in DOMAIN result : i < j => result[i] < result[j]
              /\ \A i \in DOMAIN result :
                    result[i] \in the(ri_args).start..(the(ri_args).stop - 1)

\* C27, what a call returns: a sorted list without duplicates of at most n
\* integers of [start, stop).
C27_ResultSorted ==
    ri_pc = "done" =>
        LET result == the(ri_returned)
        IN  /\ \A i, j \in DOMAIN result : i < j => result[i] < result[j]
            /\ \A i \in DOMAIN result :
                  result[i] \in the(ri_args).start..(the(ri_args).stop - 1)
            /\ Len(result) <= the(ri_args).n

\* C27, as the code has it: iterations stays 0, so the loop is never left
\* by the break and goes on while there are fewer than n indices.
C27_NeverGivesUp ==
    /\ ri_iterations = 0
    /\ ri_pc # "break"
    /\ ri_pc = "done" => Len(the(ri_returned)) >= the(ri_args).n

\* ================================================= the stability tester
\* The names of the figures of merit; a figure of merit is known by its name.
FomNames == {"fom1", "fom2"}

\* What the noise does to the clustering: 0 leaves the assignment as it is
\* without noise, another value gives another assignment.
Noises == 0..1

\* NoisySampleStabilityTester.set_repeat
set_repeat(repeat) ==
    /\ st_run.pc = "idle"
    /\ st_tester' = [st_tester EXCEPT !.repeat = repeat]
    /\ UNCHANGED <<st_run, st_noise, st_returned>>
    /\ UNCHANGED notStabilityVars

\* NoisySampleStabilityTester.set_cache_data
set_cache_data(value) ==
    /\ st_run.pc = "idle"
    /\ st_tester' = [st_tester EXCEPT !.cache_data = value]
    /\ UNCHANGED <<st_run, st_noise, st_returned>>
    /\ UNCHANGED notStabilityVars

\* NoisySampleStabilityTester.add_fom: _foms is a dict, here the list of its
\* keys in insertion order; a name already in it keeps its place.
add_fom(fom_name) ==
    /\ st_run.pc = "idle"
    /\ st_tester' = [st_tester EXCEPT
                        !.foms = IF fom_name \in Range(@) THEN @
                                 ELSE Append(@, fom_name)]
    /\ UNCHANGED <<st_run, st_noise, st_returned>>
    /\ UNCHANGED notStabilityVars

\* noisy_scanner.run(this_data), rs.write(), cluster.run(this_data) and
\* rc.get_clusters(indexed=True): the assignment found for the sample
\* points with the noise added to them, if any.
get_clusters(noise) == IF noise = None THEN 0 ELSE the(noise)

\* fom.run(original_clusters, clusters).fom: a value that tells which two
\* assignments were compared by which figure of merit.
fom_run(fom_name, original_clusters, found) ==
    [fom |-> fom_name, clusters1 |-> original_clusters, clusters2 |-> found]

\* datas.append(this_data) whatever _cache_data is.
cache_always(datas, this_data, cache_data) == Append(datas, this_data)

\* if self._cache_data: datas.append(this_data)
cache(datas, this_data, cache_data) ==
    IF cache_data THEN Append(datas, this_data) ELSE datas

\* original_clusters = copy.copy(clusters) in every pass of the loop.
baseline_latest(original_clusters, found, i) == Some(found)

\* if _ == 0: original_clusters = copy.copy(clusters)
baseline(original_clusters, found, i) ==
    IF i = 0 THEN Some(found) ELSE original_clusters

\* fom_results[fom_name].append(fom) for fom_name, fom in _foms.items():
\* fom_results is a defaultdict(list), here the list of its [name, values]
\* entries in insertion order.
append_foms(fom_results, foms, original_clusters, found) ==
    LET old(fom_name) ==
            IF \E k \in DOMAIN fom_results : fom_results[k].name = fom_name
            THEN fom_results[CHOOSE k \in DOMAIN fom_results :
                                fom_results[k].name = fom_name].values
            ELSE <<>>
        added == {k \in DOMAIN foms :
                    \A j \in DOMAIN fom_results : fom_results[j].name # foms[k]}
    IN  [k \in 1..(Len(fom_results) + Cardinality(added)) |->
            LET fom_name == IF k <= Len(fom_results) THEN fom_results[k].name
                            ELSE foms[k]
            IN  [name |-> fom_name,
                 values |-> IF fom_name \in Range(foms)
                            THEN Append(old(fom_name),
                                        fom_run(fom_name, original_clusters, found))
                            ELSE old(fom_name)]]

\* pd.DataFrame(fom_results): a column per key, a row per list position.
DataFrame_dict(fom_results) ==
    [cols |-> [k \in DOMAIN fom_results |-> fom_results[k].name],
     rows |-> [r \in 1..(IF fom_results = <<>> THEN 0
                          ELSE Len(fom_results[1].values)) |->
                 [k \in DOMAIN fom_results |-> fom_results[k].values[r]]]]

\* NoisySampleStabilityTester.run is called; runs of more than MaxRepeat
\* repetitions are not followed.
tester_run ==
    /\ st_run.pc = "idle"
    /\ Len(st_returned) < MaxStabilityRuns
    /\ st_tester.repeat <= MaxRepeat
    /\ st_run' = [no_run EXCEPT !.pc = "loop"]
    /\ UNCHANGED <<st_tester, st_noise, st_returned>>
    /\ UNCHANGED notStabilityVars

\* One pass of the loop of run.
tester_loop ==
    /\ st_run.pc = "loop"
    /\ st_run.i <= st_tester.repeat
    /\ LET i == st_run.i
           noise == IF i >= 1 THEN Some(st_noise[i]) ELSE None
           found == get_clusters(noise)
           this_data == [noise |-> noise, clusters |-> found]
       IN  st_run' =
             [st_run EXCEPT
                !.i = i + 1,
                !.datas = cache(@, this_data, st_tester.cache_data),
                !.original_clusters = baseline(@, found, i),
                !.fom_results =
                    IF i = 0 THEN @
                    ELSE append_foms(@, st_tester.foms,
                                     the(st_run.original_clusters), found),
                !.scans = Append(@, i >= 1),
                !.assignments = Append(@, found)]
    /\ UNCHANGED <<st_tester, st_noise, st_returned>>
    /\ UNCHANGED notStabilityVars

\* return NoisySampleStabilityTesterResult(df=..., cached_data=datas)
tester_return ==
    /\ st_run.pc = "loop"
    /\ st_run.i = st_tester.repeat + 1
    /\ st_returned' = Append(st_returned,
                             [tester |-> st_tester,
                              scans |-> st_run.scans,
                              assignments |-> st_run.assignments,
                              df |-> DataFrame_dict(st_run.fom_results),
                              cached_data |-> st_run.datas])
    /\ st_run' = no_run
    /\ UNCHANGED <<st_tester, st_noise>>
    /\ UNCHANGED notStabilityVars

\* A new tester; the generator yields the same noise in each of its runs,
\* so that two runs differ in the settings of the tester only.
InitStability ==
    /\ st_tester = new_tester
    /\ st_run = no_run
    /\ st_noise \in [1..MaxRepeat -> Noises]
    /\ st_returned = <<>>

NextStability ==
    \/ \E repeat \in 0..MaxRepeat : set_repeat(repeat)
    \/ \E value \in BOOLEAN : set_cache_data(value)
    \/ \E fom_name \in FomNames : add_fom(fom_name)
    \/ tester_run
    \/ tester_loop
    \/ tester_return

\* ----------------------------------- claims about the stability tester
\* What the claim says of a run that returned: a scan without noise, then
\* R scans with noise; a table of R rows with a column per registered
\* name; every value compares the first assignment with the assignment
\* of its own repetition.
BaselineThenPerturbed(returned) ==
    LET R == returned.tester.repeat
    IN  /\ returned.scans = [i \in 1..(R + 1) |-> i > 1]
        /\ Len(returned.df.rows) = R
        /\ returned.df.cols = returned.tester.foms
        /\ \A r \in 1..R : \A c \in DOMAIN returned.df.cols :
              returned.df.rows[r][c]
                = fom_run(returned.df.cols[c], returned.assignments[1],
                          returned.assignments[r + 1])

\* C23: with repeat count R and at least one figure of merit, run makes one
\* unperturbed baseline run and then R perturbed runs, compares every
\* perturbed assignment with the baseline assignment and returns a table
\* of R rows with one column per registered figure-of-merit name.
C23_BaselineThenPerturbed ==
    \A k \in DOMAIN st_returned :
        st_returned[k].tester.foms # <<>> =>
            BaselineThenPerturbed(st_returned[k])

\* C23 for a repeat count of at least one: as above.
C23_BaselineThenPerturbedRepeated ==
    \A k \in DOMAIN st_returned :
        (st_returned[k].tester.foms # <<>> /\ st_returned[k].tester.repeat >= 1) =>
            BaselineThenPerturbed(st_returned[k])

\* C23 witness: a run of two repetitions with two figures of merit, the
\* first repetition changing the assignment and the second not.
C23_Witness ==
    \E k \in DOMAIN st_returned :
        /\ st_returned[k].tester.repeat = 2
        /\ st_returned[k].tester.foms = <<"fom2", "fom1">>
        /\ st_returned[k].assignments = <<0, 1, 0>>
        /\ Len(st_returned[k].df.rows) = 2
        /\ st_returned[k].df.rows[2][1] = fom_run("fom2", 0, 0)

\* C24: two runs that differ only in cache_data return the same table of
\* figures of merit; a run caches R+1 containers when the setting is on
\* and none when it is off.
C24_CacheIndependent ==
    /\ \A j, k \in DOMAIN st_returned :
          (/\ st_returned[j].tester.cache_data # st_returned[k].tester.cache_data
           /\ st_returned[j].tester.repeat = st_returned[k].tester.repeat
           /\ st_returned[j].tester.foms = st_returned[k].tester.foms) =>
              st_returned[j].df = st_returned[k].df
    /\ \A k \in DOMAIN st_returned :
          Len(st_returned[k].cached_data)
            = IF st_returned[k].tester.cache_data
              THEN st_returned[k].tester.repeat + 1 ELSE 0

\* C24 witness: a run with the cache on and a run with it off, otherwise
\* alike, of two repetitions and with a figure of merit.
C24_Witness ==
    /\ Len(st_returned) = 2
    /\ st_returned[1].tester.cache_data
    /\ ~st_returned[2].tester.cache_data
    /\ st_returned[1].tester.repeat = 2
    /\ st_returned[2].tester.repeat = 2
    /\ st_returned[1].tester.foms = <<"fom1">>
    /\ st_returned[2].tester.foms = <<"fom1">>
    /\ Len(st_returned[1].cached_data) = 3
    /\ st_returned[2].cached_data = <<>>
    /\ Len(st_returned[2].df.rows) = 2

\* ======================================================= specifications
Init == InitScan /\ IdleData /\ IdleCluster /\ IdleDFMD /\ IdleMetric

Next == NextScan

\* The scan: a Scanner, or the scan.py script.
Spec == Init /\ [][Next]_vars

\* Renaming the clusters of a Data container.
DataInit == IdleScan /\ InitData /\ IdleCluster /\ IdleDFMD /\ IdleMetric

SpecData == DataInit /\ [][NextData]_vars

\* Subsets of the sample points of a Data container.
SubsetInit == IdleScan /\ InitSubset /\ IdleCluster /\ IdleDFMD /\ IdleMetric

SpecSubset == SubsetInit /\ [][NextSubset]_vars

\* A cluster engine writing to its Data container.
ClusterInit == IdleScan /\ InitCluster /\ IdleDFMD /\ IdleMetric

SpecCluster == ClusterInit /\ [][NextCluster]_vars

\* Writing a dataframe/metadata bundle to its files and loading it.
PersistInit == IdleScan /\ IdleData /\ IdleCluster /\ InitPersist /\ IdleMetric

SpecPersist == PersistInit /\ [][NextPersist]_vars

\* The distance metric and the two forms of its matrix.
MetricInit ==
    IdleScan /\ IdleData /\ IdleCluster /\ IdleDFMD /\ InitMetric /\ InitPlot
        /\ IdleStability

SpecMetric == MetricInit /\ [][NextMetric]_vars

\* The construction of a dataframe/metadata bundle.
DFMDInit == IdleScan /\ IdleData /\ IdleCluster /\ InitDFMD /\ IdleMetric

SpecDFMD == DFMDInit /\ [][NextDFMD]_vars

\* The random indices of a bundle plot.
PlotInit ==
    IdleScan /\ IdleData /\ IdleCluster /\ IdleDFMD /\ m_input = <<>>
        /\ m_calls = <<>> /\ InitPlot /\ IdleStability

SpecPlot == PlotInit /\ [][NextPlot]_vars

\* A stability tester, set up and run.
StabilityInit ==
    IdleScan /\ IdleData /\ IdleCluster /\ IdleDFMD /\ m_input = <<>>
        /\ m_calls = <<>> /\ InitPlot /\ InitStability

SpecStability == StabilityInit /\ [][NextStability]_vars
====
